---- MODULE Spec2Model ----
(***************************************************************************)
(* Session registry of the SFTP web client (services.SessionService,       *)
(* models.Session) as a state machine.                                     *)
(*                                                                         *)
(* Request goroutines (Threads) run CreateSession, GetSession followed by  *)
(* operations on the session's SFTP client, and DeleteSession; the         *)
(* background goroutine (Sweeper) runs CleanupExpiredSessions on every     *)
(* ticker event.  The registry's sync.RWMutex is modelled explicitly, and  *)
(* every step that another goroutine can observe is an action of its own.  *)
(* Time is a counter in units of the session timeout's granularity.        *)
(***************************************************************************)
EXTENDS Integers, Sequences, FiniteSets, TLC

\* ---- bounds of the model ------------------------------------------------
NumThreads == 2          \* request goroutines
NumIDs == 2              \* distinct values generateSessionID may return
MaxConns == 2            \* successful ssh.Dial calls over a run
MaxTime == 2              \* the clock stops here
MaxSessionsCfg == 2      \* config.Session.MaxSessions ranges over 1..this
SessionTimeout == 1      \* config.Session.Timeout, in clock units

Threads == 1..NumThreads
Sweeper == 0
Procs == {Sweeper} \cup Threads
NoProc == -1
IDs == 1..NumIDs
Nil == 0

\* models.LoginRequest values the handlers pass in: a complete one and one with no host
Requests ==
  [Host : {"", "h"}, Port : {22}, Username : {"u"}, Password : {"p"}]

VARIABLES
  config,           \* s.config.Session
  now,              \* the clock (time.Now)
  sessions,         \* s.sessions: id -> *models.Session (an index of heap)
  heap,             \* the models.Session objects allocated so far
  conn,             \* the SSH/SFTP handles dialled so far, with their close counts
  mutexW,           \* s.mutex: the goroutine holding the write lock, or NoProc
  mutexR,           \* s.mutex: the goroutines holding the read lock
  pc,               \* position of every goroutine
  arg,              \* sessionID argument of the call in progress
  cur,              \* the *models.Session a goroutine holds
  hnd,              \* the *sftp.Client a handler's operation is running on
  ret,              \* result of a goroutine's last finished call
  tval,             \* GetSession: the time value a goroutine has read and not used yet
  swTodo,           \* sweeper: ids the range loop has not visited yet
  expiredSessions,  \* sweeper: the expiredSessions slice
  swIdx,            \* sweeper: position of the second loop in expiredSessions
  swRet,            \* sweeper: value returned by the last finished run
  swStart,          \* history: sessions, heap and conn when the running sweep took the lock
  closeErr,         \* Session.Close: its local err is non-nil, per calling goroutine
  reportedExpired,  \* history: registered sessions GetSession has answered Expired for
  zpc,              \* DownloadMultiple: position of the call
  zpaths,           \* DownloadMultiple: the filePaths the loop has not reached yet
  zstack,           \* the addDirectoryToZip calls in progress, innermost last
  zentries,         \* zip.Writer: the entries created so far
  zsink,            \* the io.Writer w has returned a write error
  zcloses,          \* number of zipWriter.Close() calls
  ztrailer,         \* zipWriter.Close() has written the central directory
  zret,             \* what DownloadMultiple returned
  zok,              \* history: number of filePaths handled without an error so far
  zopen,            \* number of remote read streams (SFTPClient.Open) not closed yet
  zfile,            \* addFileToZip has opened the file of the element the loop is at
  fs,               \* the remote file system behind session.SFTPClient
  fbroken,          \* the session's connection has broken: every later call on it fails
  fpc,              \* FileService: position of the call in progress
  fcall,            \* FileService: arguments and locals of the call in progress
  flog,             \* history: the SFTPClient calls the running (or last) call has issued
  fres,             \* FileService: what the last finished call returned
  fbatch,           \* DeleteMultipleFiles: the loop position and the deleted / failed slices
  homeDir,          \* the HomeDir CreateSession has put into the session
  hcall,            \* CreateSession has resolved the session's HomeDir
  lcall,            \* ListFiles: arguments of the last call and the listing the remote gave
  lres,             \* ListFiles: what the last call returned
  cpcall,           \* utils.CleanPath: arguments and result of the last call
  rtime,            \* RateLimit: the wall clock time.Now() reads
  rclients,         \* RateLimit: the clients map, per address the recorded request times
  rpc,              \* RateLimit: position of each request goroutine in the handler
  rreq,             \* RateLimit: clientIP and now of each request goroutine
  rfwd,             \* history: per address and time stamp, the number of requests forwarded to next
  rcount            \* history: number of requests that have entered the middleware

vars == <<config, now, sessions, heap, conn, mutexW, mutexR, pc, arg, cur, hnd, ret, tval,
          swTodo, expiredSessions, swIdx, swRet, swStart, closeErr, reportedExpired,
          zpc, zpaths, zstack, zentries, zsink, zcloses, ztrailer, zret, zok, zopen, zfile,
          fs, fbroken, fpc, fcall, flog, fres, fbatch, homeDir, hcall, lcall, lres,
          cpcall, rtime, rclients, rpc, rreq, rfwd, rcount>>

regVars == <<config, now, sessions, heap, conn, mutexW, mutexR, pc, arg, cur, hnd, ret, tval,
            swTodo, expiredSessions, swIdx, swRet, swStart, closeErr, reportedExpired>>

zipVars == <<zpc, zpaths, zstack, zentries, zsink, zcloses, ztrailer, zret, zok, zopen, zfile>>

fsVars == <<fs, fbroken, fpc, fcall, flog, fres, fbatch>>

pathVars == <<cpcall>>

rateVars == <<rtime, rclients, rpc, rreq, rfwd, rcount>>

listVars == <<homeDir, hcall, lcall, lres>>

Range(s) == {s[i] : i \in DOMAIN s}

\* ---- models.LoginRequest / models.Session ---------------------------------

\* (r *LoginRequest) Validate: nil, or the first validation error
Validate(r) ==
  IF r.Host = "" THEN "ErrInvalidHost"
  ELSE IF r.Port <= 0 \/ r.Port > 65535 THEN "ErrInvalidPort"
  ELSE IF r.Username = "" THEN "ErrInvalidUsername"
  ELSE IF r.Password = "" THEN "ErrInvalidPassword"
  ELSE "nil"

\* (s *Session) IsExpired at clock value t: time.Since(s.LastAccess) > timeout
IsExpiredAtOrAfter(s, timeout, t) == t - s.LastAccess >= timeout
IsExpiredLate(s, timeout, t) == t - s.LastAccess > timeout + 1
IsExpired(s, timeout, t) == t - s.LastAccess > timeout

\* (s *Session) UpdateAccess at clock value t
UpdateAccess(s, t) == [s EXCEPT !.LastAccess = t]

\* the session CreateSession builds around a freshly dialled connection c; the
\* fields no registry code reads (CreatedAt, HomeDir, Username, Host, Port) are left out
NewSession(id, c, t) ==
  [ID |-> id, SFTPClient |-> c, SSHClient |-> c, LastAccess |-> t, IsActive |-> TRUE]

\* a freshly dialled connection: the ssh client is open, no sftp client yet
NewConn == [sshCloses |-> 0, sftpOpened |-> FALSE, sftpCloses |-> 0]

\* ---- sync.RWMutex -----------------------------------------------------------

\* no goroutine is blocked inside s.mutex.Lock() behind the readers
NoWaiter == \A q \in Threads : pc[q] # "cs_lock"

\* s.mutex.RLock() returns only while no writer holds the mutex and none is
\* waiting for it: a pending Lock() shuts out new readers
CanRLockAlways == TRUE
CanRLock == mutexW = NoProc /\ NoWaiter

\* s.mutex.Lock() returns only while nobody holds the mutex; the writers queue
\* behind one another, so none passes the one that waits for the readers
CanLockAlways == TRUE
CanLock == mutexW = NoProc /\ mutexR = {} /\ NoWaiter

\* ---- registry helpers -------------------------------------------------------

Registered(o) == \E id \in DOMAIN sessions : sessions[id] = o

\* delete(s.sessions, id)
MapDeleteKeep(m, id) == m
MapDelete(m, id) == [k \in DOMAIN m \ {id} |-> m[k]]

\* s.sessions[id] = o
MapStore(m, id, o) == [k \in DOMAIN m \cup {id} |-> IF k = id THEN o ELSE m[k]]

\* len(s.sessions) >= s.config.Session.MaxSessions
AtCapacityOffByOne(n, max) == n > max
AtCapacity(n, max) == n >= max

\* the result val of a call of operation op
Res(op, val) == [op |-> op, val |-> val]
NoRes == Res("none", "none")

\* no sweep is running
NoSnapshot == [sessions |-> <<>>, heap |-> <<>>, conn |-> <<>>]

\* ---- the remote file system and the state of a FileService call -------------

\* file contents are byte strings of at most MaxFileSize bytes
FByte == "x"
MaxFileSize == 2
Contents == UNION {[1..n -> {FByte}] : n \in 0..MaxFileSize}

\* the remote paths the requests name: a file, a directory, a file in that
\* directory and a path that does not exist at first
FPaths == {"/f", "/d", "/d/g", "/n"}
Parent(p) == IF p = "/d/g" THEN "/d" ELSE "/"

NoNode == [kind |-> "none", data |-> <<>>]
FileNode(c) == [kind |-> "file", data |-> c]
DirNode == [kind |-> "dir", data |-> <<>>]

InitTree ==
  [p \in FPaths |-> CASE p = "/f" -> FileNode(<<FByte>>)
                      [] p = "/d" -> DirNode
                      [] p = "/d/g" -> FileNode(<<>>)
                      [] OTHER -> NoNode]

\* no call in progress; the arguments and the stat result of a call
NoCall ==
  [op |-> "none", path |-> "", maxSize |-> 0, src |-> <<>>, overwrite |-> FALSE,
   isDir |-> FALSE]

\* the values a FileService call returns: the error ("nil" for none), the
\* content of PreviewFile, the two slices of DeleteMultipleFiles
FRes(err) == [err |-> err, content |-> <<>>, deleted |-> <<>>, failed |-> <<>>]
NoFRes == FRes("none")

\* no DeleteMultipleFiles call in progress
NoBatch ==
  [active |-> FALSE, input |-> <<>>, rest |-> <<>>, deleted |-> <<>>,
   failed |-> <<>>, errs |-> <<>>]

\* no ListFiles call made yet
NoListCall ==
  [dirPath |-> <<>>, showHidden |-> FALSE, filter |-> <<>>, found |-> FALSE,
   readErr |-> FALSE, listing |-> <<>>, readDirPath |-> <<>>]
NoListRes == [err |-> "none", files |-> <<>>]

\* no CleanPath call has been made
NoCleanPathCall == [basePath |-> <<>>, relativePath |-> <<>>, result |-> <<>>, called |-> FALSE]

\* the request goroutines inside the RateLimit handler, the addresses
\* getClientIP gives them, and the last clock reading
NumRequesters == 2
Requesters == 1..NumRequesters
ClientIPs == {"c1", "c2"}
MaxRateTime == 3
NoRequest == [clientIP |-> "", now |-> 0]

Init ==
  /\ config \in [MaxSessions : 1..MaxSessionsCfg, Timeout : {SessionTimeout}]
  /\ now = 0
  /\ sessions = <<>>
  /\ heap = <<>>
  /\ conn = <<>>
  /\ mutexW = NoProc
  /\ mutexR = {}
  /\ pc = [p \in Procs |-> IF p = Sweeper THEN "sw_idle" ELSE "idle"]
  /\ arg = [p \in Procs |-> Nil]
  /\ cur = [p \in Procs |-> Nil]
  /\ hnd = [p \in Threads |-> Nil]
  /\ ret = [p \in Threads |-> NoRes]
  /\ tval = [p \in Threads |-> 0]
  /\ swTodo = {}
  /\ expiredSessions = <<>>
  /\ swIdx = 0
  /\ swRet = 0
  /\ swStart = NoSnapshot
  /\ closeErr = [p \in Procs |-> FALSE]
  /\ reportedExpired = {}
  /\ zpc = "idle"
  /\ zpaths = <<>>
  /\ zstack = <<>>
  /\ zentries = <<>>
  /\ zsink = FALSE
  /\ zcloses = 0
  /\ ztrailer = FALSE
  /\ zret = "none"
  /\ zok = 0
  /\ zopen = 0
  /\ zfile = FALSE
  /\ fs = InitTree
  /\ fbroken = FALSE
  /\ fpc = "idle"
  /\ fcall = NoCall
  /\ flog = <<>>
  /\ fres = NoFRes
  /\ fbatch = NoBatch
  /\ homeDir = <<>>
  /\ hcall = FALSE
  /\ lcall = NoListCall
  /\ lres = NoListRes
  /\ cpcall = NoCleanPathCall
  /\ rtime = 0
  /\ rclients = [ip \in ClientIPs |-> <<>>]
  /\ rpc = [r \in Requesters |-> "idle"]
  /\ rreq = [r \in Requesters |-> NoRequest]
  /\ rfwd = [ip \in ClientIPs |-> [t \in 0..MaxRateTime |-> 0]]
  /\ rcount = 0

\* a call of goroutine p returns r
Return(p, r) ==
  /\ pc' = [pc EXCEPT ![p] = "idle"]
  /\ ret' = [ret EXCEPT ![p] = r]
  /\ arg' = [arg EXCEPT ![p] = Nil]
  /\ cur' = [cur EXCEPT ![p] = Nil]

sweepVars == <<swTodo, expiredSessions, swIdx, swRet, swStart>>

\* ---- CreateSession ----------------------------------------------------------

\* req.Validate(), then the session-limit check under the read lock
CreateSessionCheck(p, req) ==
  /\ pc[p] = "idle"
  /\ IF Validate(req) # "nil"
       THEN Return(p, Res("CreateSession", Validate(req)))
       ELSE /\ CanRLock
            /\ IF AtCapacity(Cardinality(DOMAIN sessions), config.MaxSessions)
                 THEN Return(p, Res("CreateSession", "ErrMaxSessions"))
                 ELSE /\ pc' = [pc EXCEPT ![p] = "cs_connect"]
                      /\ ret' = [ret EXCEPT ![p] = NoRes]
                      /\ UNCHANGED <<arg, cur>>
  /\ UNCHANGED <<zipVars, fsVars, pathVars, rateVars, listVars, tval, reportedExpired, config, closeErr, now, sessions, heap, conn, mutexW, mutexR, hnd, sweepVars>>

\* ssh.Dial fails
CreateSessionDialFailSilent(p) ==
  /\ pc[p] = "cs_connect"
  /\ Return(p, Res("CreateSession", "ok"))
  /\ UNCHANGED <<zipVars, fsVars, pathVars, rateVars, listVars, tval, reportedExpired, config, closeErr, now, sessions, heap, conn, mutexW, mutexR, hnd, sweepVars>>
CreateSessionDialFail(p) ==
  /\ pc[p] = "cs_connect"
  /\ Return(p, Res("CreateSession", "ErrDial"))
  /\ UNCHANGED <<zipVars, fsVars, pathVars, rateVars, listVars, tval, reportedExpired, config, closeErr, now, sessions, heap, conn, mutexW, mutexR, hnd, sweepVars>>

\* ssh.Dial succeeds, sftp.NewClient fails: the ssh client is closed
CreateSessionSFTPFail(p) ==
  /\ pc[p] = "cs_connect"
  /\ Len(conn) < MaxConns
  /\ conn' = Append(conn, [NewConn EXCEPT !.sshCloses = 1])
  /\ Return(p, Res("CreateSession", "ErrSFTP"))
  /\ UNCHANGED <<zipVars, fsVars, pathVars, rateVars, listVars, tval, reportedExpired, config, closeErr, now, sessions, heap, mutexW, mutexR, hnd, sweepVars>>

\* both clients are up, generateSessionID (crypto/rand) fails: both are closed
CreateSessionIDFail(p) ==
  /\ pc[p] = "cs_connect"
  /\ Len(conn) < MaxConns
  /\ conn' = Append(conn, [sshCloses |-> 1, sftpOpened |-> TRUE, sftpCloses |-> 1])
  /\ Return(p, Res("CreateSession", "ErrSessionID"))
  /\ UNCHANGED <<zipVars, fsVars, pathVars, rateVars, listVars, tval, reportedExpired, config, closeErr, now, sessions, heap, mutexW, mutexR, hnd, sweepVars>>

\* both clients are up and generateSessionID returned id: the Session is built
CreateSessionConnect(p, id) ==
  /\ pc[p] = "cs_connect"
  /\ Len(conn) < MaxConns
  /\ LET c == Len(conn) + 1 IN
       /\ conn' = Append(conn, [NewConn EXCEPT !.sftpOpened = TRUE])
       /\ heap' = MapStore(heap, c, NewSession(id, c, now))
       /\ cur' = [cur EXCEPT ![p] = c]
  /\ pc' = [pc EXCEPT ![p] = "cs_store"]
  /\ UNCHANGED <<zipVars, fsVars, pathVars, rateVars, listVars, tval, reportedExpired, config, closeErr, now, sessions, mutexW, mutexR, arg, hnd, ret, sweepVars>>

\* s.mutex.Lock(); s.sessions[sessionID] = session; s.mutex.Unlock()
CreateSessionStore(p) ==
  /\ \/ pc[p] = "cs_store" /\ CanLock
     \/ pc[p] = "cs_lock" /\ mutexR = {}
  /\ sessions' = MapStore(sessions, heap[cur[p]].ID, cur[p])
  /\ Return(p, Res("CreateSession", "ok"))
  /\ reportedExpired' = reportedExpired \cap Range(sessions')
  /\ UNCHANGED <<zipVars, fsVars, pathVars, rateVars, listVars, tval, config, closeErr, now, heap, conn, mutexW, mutexR, hnd, sweepVars>>

\* s.mutex.Lock() finds readers inside: the call announces itself, which shuts
\* out new readers, and waits for the readers inside to leave
CreateSessionLockWait(p) ==
  /\ pc[p] = "cs_store"
  /\ mutexW = NoProc /\ mutexR # {} /\ NoWaiter
  /\ pc' = [pc EXCEPT ![p] = "cs_lock"]
  /\ UNCHANGED <<arg, cur, ret>>
  /\ UNCHANGED <<zipVars, fsVars, pathVars, rateVars, listVars, tval, reportedExpired, config, closeErr, now, sessions, heap, conn, mutexW, mutexR, hnd, sweepVars>>

\* ---- GetSession -------------------------------------------------------------

\* s.mutex.RLock(), the map lookup and, inside session.IsExpired, the load of
\* s.LastAccess as the argument of time.Since
GetSessionCheck(p, id) ==
  /\ pc[p] = "idle"
  /\ CanRLock
  /\ IF id \notin DOMAIN sessions
       THEN /\ Return(p, Res("GetSession", "ErrSessionNotFound"))
            /\ UNCHANGED <<mutexR, tval>>
       ELSE /\ mutexR' = mutexR \cup {p}
            /\ pc' = [pc EXCEPT ![p] = "gs_since"]
            /\ arg' = [arg EXCEPT ![p] = id]
            /\ cur' = [cur EXCEPT ![p] = sessions[id]]
            /\ tval' = [tval EXCEPT ![p] = heap[sessions[id]].LastAccess]
            /\ ret' = [ret EXCEPT ![p] = NoRes]
  /\ UNCHANGED <<zipVars, fsVars, pathVars, rateVars, listVars, reportedExpired, config, closeErr, now, sessions, heap, conn, mutexW, hnd, sweepVars>>

\* time.Since reads the clock and IsExpired compares; an expired session is
\* answered ErrSessionExpired after the deferred RUnlock
GetSessionExpired(p) ==
  /\ pc[p] = "gs_since"
  /\ IF IsExpired([heap[cur[p]] EXCEPT !.LastAccess = tval[p]], config.Timeout, now)
       THEN /\ Return(p, Res("GetSession", "ErrSessionExpired"))
            /\ mutexR' = mutexR \ {p}
            /\ reportedExpired' = reportedExpired \cup {cur[p]}
       ELSE /\ pc' = [pc EXCEPT ![p] = "gs_update"]
            /\ UNCHANGED <<arg, cur, ret, mutexR, reportedExpired>>
  /\ tval' = [tval EXCEPT ![p] = 0]
  /\ UNCHANGED <<zipVars, fsVars, pathVars, rateVars, listVars, config, closeErr, now, sessions, heap, conn, mutexW, hnd, sweepVars>>

\* session.UpdateAccess(): time.Now() is evaluated
GetSessionNow(p) ==
  /\ pc[p] = "gs_update"
  /\ tval' = [tval EXCEPT ![p] = now]
  /\ pc' = [pc EXCEPT ![p] = "gs_store"]
  /\ UNCHANGED <<zipVars, fsVars, pathVars, rateVars, listVars, reportedExpired, config, closeErr, now, sessions, heap, conn, mutexW, mutexR, arg, cur, hnd, ret, sweepVars>>

GetSessionUpdateKeepsRLock(p) ==
  /\ pc[p] = "gs_store"
  /\ heap' = [heap EXCEPT ![cur[p]] = UpdateAccess(heap[cur[p]], tval[p])]
  /\ tval' = [tval EXCEPT ![p] = 0]
  /\ pc' = [pc EXCEPT ![p] = "h_op"]
  /\ ret' = [ret EXCEPT ![p] = Res("GetSession", "ok")]
  /\ arg' = [arg EXCEPT ![p] = Nil]
  /\ UNCHANGED <<zipVars, fsVars, pathVars, rateVars, listVars, reportedExpired, config, closeErr, now, sessions, conn, mutexW, mutexR, cur, hnd, sweepVars>>

\* session.UpdateAccess(): the value read is stored into s.LastAccess; the
\* deferred RUnlock and the return of the session
GetSessionUpdate(p) ==
  /\ pc[p] = "gs_store"
  /\ heap' = [heap EXCEPT ![cur[p]] = UpdateAccess(heap[cur[p]], tval[p])]
  /\ tval' = [tval EXCEPT ![p] = 0]
  /\ mutexR' = mutexR \ {p}
  /\ pc' = [pc EXCEPT ![p] = "h_op"]
  /\ ret' = [ret EXCEPT ![p] = Res("GetSession", "ok")]
  /\ arg' = [arg EXCEPT ![p] = Nil]
  /\ UNCHANGED <<zipVars, fsVars, pathVars, rateVars, listVars, reportedExpired, config, closeErr, now, sessions, conn, mutexW, cur, hnd, sweepVars>>

\* ---- a request handler using the session GetSession returned ----------------

\* the handler reads session.SFTPClient and issues a call on it
\* (ReadDir, Stat, Open, Create, Remove, ...); a nil client panics
HandlerOpBegin(p) ==
  /\ pc[p] = "h_op"
  /\ IF heap[cur[p]].SFTPClient = Nil
       THEN Return(p, Res("Handler", "panic")) /\ UNCHANGED hnd
       ELSE /\ hnd' = [hnd EXCEPT ![p] = heap[cur[p]].SFTPClient]
            /\ pc' = [pc EXCEPT ![p] = "h_in"]
            /\ UNCHANGED <<arg, cur, ret>>
  /\ UNCHANGED <<zipVars, fsVars, pathVars, rateVars, listVars, tval, reportedExpired, config, closeErr, now, sessions, heap, conn, mutexW, mutexR, sweepVars>>

\* the call returns (with an error when the client was closed under it);
\* the handler issues another call on the same session or finishes
HandlerOpEnd(p, more) ==
  /\ pc[p] = "h_in"
  /\ hnd' = [hnd EXCEPT ![p] = Nil]
  /\ IF more
       THEN /\ pc' = [pc EXCEPT ![p] = "h_op"]
            /\ UNCHANGED <<arg, cur, ret>>
       ELSE Return(p, Res("Handler",
                          IF conn[hnd[p]].sftpCloses > 0 THEN "ErrConnClosed" ELSE "ok"))
  /\ UNCHANGED <<zipVars, fsVars, pathVars, rateVars, listVars, tval, reportedExpired, config, closeErr, now, sessions, heap, conn, mutexW, mutexR, sweepVars>>

\* ---- ListSessions and GetStats ------------------------------------------------

\* the sessions a loop under the read lock finds not expired (and active)
NotExpired == {id \in DOMAIN sessions : ~IsExpired(heap[sessions[id]], config.Timeout, now)}
ActiveSessions == {id \in NotExpired : heap[sessions[id]].IsActive}

\* ListSessions: s.mutex.RLock() and the deferred RUnlock
ListSessionsLock(p) ==
  /\ pc[p] = "idle"
  /\ CanRLock
  /\ mutexR' = mutexR \cup {p}
  /\ pc' = [pc EXCEPT ![p] = "ls_loop"]
  /\ ret' = [ret EXCEPT ![p] = NoRes]
  /\ UNCHANGED <<arg, cur>>
  /\ UNCHANGED <<zipVars, fsVars, pathVars, rateVars, listVars, tval, reportedExpired, config, closeErr, now, sessions, heap, conn, mutexW, hnd, sweepVars>>

\* the loop that reads every session's LastAccess, then RUnlock and return
ListSessionsReturn(p) ==
  /\ pc[p] = "ls_loop"
  /\ mutexR' = mutexR \ {p}
  /\ Return(p, Res("ListSessions", "ok"))
  /\ UNCHANGED <<cur>>
  /\ UNCHANGED <<zipVars, fsVars, pathVars, rateVars, listVars, tval, reportedExpired, config, closeErr, now, sessions, heap, conn, mutexW, hnd, sweepVars>>

\* GetStats: s.mutex.RLock() and the deferred RUnlock
GetStatsLock(p) ==
  /\ pc[p] = "idle"
  /\ CanRLock
  /\ mutexR' = mutexR \cup {p}
  /\ pc' = [pc EXCEPT ![p] = "st_loop"]
  /\ ret' = [ret EXCEPT ![p] = NoRes]
  /\ UNCHANGED <<arg, cur>>
  /\ UNCHANGED <<zipVars, fsVars, pathVars, rateVars, listVars, tval, reportedExpired, config, closeErr, now, sessions, heap, conn, mutexW, hnd, sweepVars>>

\* the loop that reads every session's LastAccess and IsActive, then RUnlock
\* and return
GetStatsReturn(p) ==
  /\ pc[p] = "st_loop"
  /\ mutexR' = mutexR \ {p}
  /\ Return(p, Res("GetStats", "ok"))
  /\ UNCHANGED <<cur>>
  /\ UNCHANGED <<zipVars, fsVars, pathVars, rateVars, listVars, tval, reportedExpired, config, closeErr, now, sessions, heap, conn, mutexW, hnd, sweepVars>>

\* ---- Session.Close, called by DeleteSession and by the sweeper ---------------

\* s.IsActive = false; if s.SFTPClient != nil { closeErr := s.SFTPClient.Close();
\* if closeErr != nil { err = closeErr }; e: that Close call returns an error
SessionClose1(p, e) ==
  /\ pc[p] = "close1"
  /\ LET s == heap[cur[p]] IN
       /\ s.SFTPClient = Nil => ~e
       /\ heap' = [heap EXCEPT ![cur[p]].IsActive = FALSE]
       /\ conn' = IF s.SFTPClient # Nil
                    THEN [conn EXCEPT ![s.SFTPClient].sftpCloses = @ + 1]
                    ELSE conn
       /\ closeErr' = [closeErr EXCEPT ![p] = e]
       /\ pc' = [pc EXCEPT ![p] = IF s.SFTPClient # Nil THEN "close_nil" ELSE "close2"]
  /\ UNCHANGED <<zipVars, fsVars, pathVars, rateVars, listVars, tval, reportedExpired, config, now, sessions, mutexW, mutexR, arg, cur, hnd, ret, sweepVars>>

\* s.SFTPClient = nil }, after which the goroutine goes into s.SSHClient.Close()
SessionCloseNil(p) ==
  /\ pc[p] = "close_nil"
  /\ heap' = [heap EXCEPT ![cur[p]].SFTPClient = Nil]
  /\ pc' = [pc EXCEPT ![p] = "close2"]
  /\ UNCHANGED <<zipVars, fsVars, pathVars, rateVars, listVars, tval, reportedExpired, config, closeErr, now, sessions, conn, mutexW, mutexR, arg, cur, hnd, ret, sweepVars>>

\* if s.SSHClient != nil { closeErr := s.SSHClient.Close();
\* if closeErr != nil { err = closeErr }; s.SSHClient = nil }; return err
SessionClose2(p, e) ==
  /\ pc[p] = "close2"
  /\ LET s == heap[cur[p]] IN
       /\ s.SSHClient = Nil => ~e
       /\ heap' = [heap EXCEPT ![cur[p]].SSHClient = Nil]
       /\ conn' = IF s.SSHClient # Nil
                    THEN [conn EXCEPT ![s.SSHClient].sshCloses = @ + 1]
                    ELSE conn
       /\ closeErr' = [closeErr EXCEPT ![p] = e \/ closeErr[p]]
  /\ pc' = [pc EXCEPT ![p] = IF p = Sweeper THEN "sw_delete" ELSE "ds_delete"]
  /\ UNCHANGED <<zipVars, fsVars, pathVars, rateVars, listVars, tval, reportedExpired, config, now, sessions, mutexW, mutexR, arg, cur, hnd, ret, sweepVars>>

\* ---- DeleteSession ----------------------------------------------------------

\* s.mutex.Lock() and the map lookup
DeleteSessionLookupSkipClose(p, id) ==
  /\ pc[p] = "idle"
  /\ CanLock
  /\ IF id \notin DOMAIN sessions
       THEN Return(p, Res("DeleteSession", "ErrSessionNotFound")) /\ UNCHANGED mutexW
       ELSE /\ mutexW' = p
            /\ pc' = [pc EXCEPT ![p] = "ds_delete"]
            /\ arg' = [arg EXCEPT ![p] = id]
            /\ cur' = [cur EXCEPT ![p] = sessions[id]]
            /\ ret' = [ret EXCEPT ![p] = NoRes]
  /\ UNCHANGED <<zipVars, fsVars, pathVars, rateVars, listVars, tval, reportedExpired, config, closeErr, now, sessions, heap, conn, mutexR, hnd, sweepVars>>
DeleteSessionLookup(p, id) ==
  /\ pc[p] = "idle"
  /\ CanLock
  /\ IF id \notin DOMAIN sessions
       THEN Return(p, Res("DeleteSession", "ErrSessionNotFound")) /\ UNCHANGED mutexW
       ELSE /\ mutexW' = p
            /\ pc' = [pc EXCEPT ![p] = "close1"]
            /\ arg' = [arg EXCEPT ![p] = id]
            /\ cur' = [cur EXCEPT ![p] = sessions[id]]
            /\ ret' = [ret EXCEPT ![p] = NoRes]
  /\ UNCHANGED <<zipVars, fsVars, pathVars, rateVars, listVars, tval, reportedExpired, config, closeErr, now, sessions, heap, conn, mutexR, hnd, sweepVars>>

\* the error of session.Close() is printed and dropped;
\* delete(s.sessions, sessionID), the deferred Unlock, return nil
DeleteSessionRemovePropagates(p) ==
  /\ pc[p] = "ds_delete"
  /\ sessions' = IF closeErr[p] THEN sessions ELSE MapDelete(sessions, arg[p])
  /\ mutexW' = NoProc
  /\ Return(p, Res("DeleteSession", IF closeErr[p] THEN "ErrClose" ELSE "nil"))
  /\ closeErr' = [closeErr EXCEPT ![p] = FALSE]
  /\ reportedExpired' = reportedExpired \cap Range(sessions')
  /\ UNCHANGED <<zipVars, fsVars, pathVars, rateVars, listVars, tval, config, now, heap, conn, mutexR, hnd, sweepVars>>
DeleteSessionRemove(p) ==
  /\ pc[p] = "ds_delete"
  /\ sessions' = MapDelete(sessions, arg[p])
  /\ mutexW' = NoProc
  /\ Return(p, Res("DeleteSession", "nil"))
  /\ closeErr' = [closeErr EXCEPT ![p] = FALSE]
  /\ reportedExpired' = reportedExpired \cap Range(sessions')
  /\ UNCHANGED <<zipVars, fsVars, pathVars, rateVars, listVars, tval, config, now, heap, conn, mutexR, hnd, sweepVars>>

\* ---- CleanupExpiredSessions, run by cleanupExpiredSessions on every tick ----

\* the ticker fires: s.mutex.Lock(), the range loop starts
CleanupLock ==
  /\ pc[Sweeper] = "sw_idle"
  /\ CanLock
  /\ mutexW' = Sweeper
  /\ swTodo' = DOMAIN sessions
  /\ expiredSessions' = <<>>
  /\ swIdx' = 1
  /\ swStart' = [sessions |-> sessions, heap |-> heap, conn |-> conn]
  /\ pc' = [pc EXCEPT ![Sweeper] = "sw_scan"]
  /\ UNCHANGED <<zipVars, fsVars, pathVars, rateVars, listVars, tval, reportedExpired, config, closeErr, now, sessions, heap, conn, mutexR, arg, cur, hnd, ret, swRet>>

\* one iteration of `for id, session := range s.sessions`
CleanupScan(id) ==
  /\ pc[Sweeper] = "sw_scan"
  /\ id \in swTodo
  /\ swTodo' = swTodo \ {id}
  /\ expiredSessions' = IF IsExpired(heap[sessions[id]], config.Timeout, now)
                          THEN Append(expiredSessions, id)
                          ELSE expiredSessions
  /\ UNCHANGED <<zipVars, fsVars, pathVars, rateVars, listVars, tval, reportedExpired, config, closeErr, now, sessions, heap, conn, mutexW, mutexR, pc, arg, cur, hnd, ret,
                 swIdx, swRet, swStart>>

\* one iteration of `for _, id := range expiredSessions`: session := s.sessions[id]
CleanupFetch ==
  /\ pc[Sweeper] = "sw_scan"
  /\ swTodo = {}
  /\ swIdx <= Len(expiredSessions)
  /\ arg' = [arg EXCEPT ![Sweeper] = expiredSessions[swIdx]]
  /\ cur' = [cur EXCEPT ![Sweeper] = sessions[expiredSessions[swIdx]]]
  /\ pc' = [pc EXCEPT ![Sweeper] = "close1"]
  /\ UNCHANGED <<zipVars, fsVars, pathVars, rateVars, listVars, tval, reportedExpired, config, closeErr, now, sessions, heap, conn, mutexW, mutexR, hnd, ret, sweepVars>>

\* the error of session.Close() is printed and dropped; delete(s.sessions, id)
CleanupRemove ==
  /\ pc[Sweeper] = "sw_delete"
  /\ sessions' = MapDelete(sessions, arg[Sweeper])
  /\ closeErr' = [closeErr EXCEPT ![Sweeper] = FALSE]
  /\ swIdx' = swIdx + 1
  /\ arg' = [arg EXCEPT ![Sweeper] = Nil]
  /\ cur' = [cur EXCEPT ![Sweeper] = Nil]
  /\ pc' = [pc EXCEPT ![Sweeper] = "sw_scan"]
  /\ reportedExpired' = reportedExpired \cap Range(sessions')
  /\ UNCHANGED <<zipVars, fsVars, pathVars, rateVars, listVars, tval, config, now, heap, conn, mutexW, mutexR, hnd, ret, swTodo,
                 expiredSessions, swRet, swStart>>

\* the deferred Unlock and return len(expiredSessions)
CleanupReturnMiscount ==
  /\ pc[Sweeper] = "sw_scan"
  /\ swTodo = {}
  /\ swIdx > Len(expiredSessions)
  /\ swRet' = swIdx
  /\ mutexW' = NoProc
  /\ expiredSessions' = <<>>
  /\ swIdx' = 0
  /\ swStart' = NoSnapshot
  /\ pc' = [pc EXCEPT ![Sweeper] = "sw_idle"]
  /\ UNCHANGED <<zipVars, fsVars, pathVars, rateVars, listVars, tval, reportedExpired, config, closeErr, now, sessions, heap, conn, mutexR, arg, cur, hnd, ret, swTodo>>
CleanupReturn ==
  /\ pc[Sweeper] = "sw_scan"
  /\ swTodo = {}
  /\ swIdx > Len(expiredSessions)
  /\ swRet' = Len(expiredSessions)
  /\ mutexW' = NoProc
  /\ expiredSessions' = <<>>
  /\ swIdx' = 0
  /\ swStart' = NoSnapshot
  /\ pc' = [pc EXCEPT ![Sweeper] = "sw_idle"]
  /\ UNCHANGED <<zipVars, fsVars, pathVars, rateVars, listVars, tval, reportedExpired, config, closeErr, now, sessions, heap, conn, mutexR, arg, cur, hnd, ret, swTodo>>

\* ---- the clock --------------------------------------------------------------

Tick ==
  /\ now < MaxTime
  /\ now' = now + 1
  /\ UNCHANGED <<zipVars, fsVars, pathVars, rateVars, listVars, tval, reportedExpired, config, closeErr, sessions, heap, conn, mutexW, mutexR, pc, arg, cur, hnd, ret,
                 sweepVars>>

Next ==
  \/ \E p \in Threads, req \in Requests : CreateSessionCheck(p, req)
  \/ \E p \in Threads : CreateSessionDialFail(p)
  \/ \E p \in Threads : CreateSessionSFTPFail(p)
  \/ \E p \in Threads : CreateSessionIDFail(p)
  \/ \E p \in Threads, id \in IDs : CreateSessionConnect(p, id)
  \/ \E p \in Threads : CreateSessionStore(p)
  \/ \E p \in Threads, id \in IDs : GetSessionCheck(p, id)
  \/ \E p \in Threads : GetSessionExpired(p)
  \/ \E p \in Threads : GetSessionNow(p)
  \/ \E p \in Threads : GetSessionUpdate(p)
  \/ \E p \in Threads : HandlerOpBegin(p)
  \/ \E p \in Threads, more \in BOOLEAN : HandlerOpEnd(p, more)
  \/ \E p \in Threads, id \in IDs : DeleteSessionLookup(p, id)
  \/ \E p \in Procs, e \in BOOLEAN : SessionClose1(p, e)
  \/ \E p \in Procs : SessionCloseNil(p)
  \/ \E p \in Procs, e \in BOOLEAN : SessionClose2(p, e)
  \/ \E p \in Threads : DeleteSessionRemove(p)
  \/ CleanupLock
  \/ \E id \in IDs : CleanupScan(id)
  \/ CleanupFetch
  \/ CleanupRemove
  \/ CleanupReturn
  \/ Tick

Spec == Init /\ [][Next]_vars

\* the next step of a CleanupExpiredSessions run that has the lock
SweepStep ==
  \/ \E id \in IDs : CleanupScan(id)
  \/ CleanupFetch
  \/ \E e \in BOOLEAN : SessionClose1(Sweeper, e) \/ SessionClose2(Sweeper, e)
  \/ SessionCloseNil(Sweeper)
  \/ CleanupRemove
  \/ CleanupReturn

\* the next step of goroutine p while it holds the lock in GetSession or
\* DeleteSession
LockedStep(p) ==
  \/ GetSessionExpired(p) \/ GetSessionNow(p) \/ GetSessionUpdate(p)
  \/ \E e \in BOOLEAN : SessionClose1(p, e) \/ SessionClose2(p, e)
  \/ SessionCloseNil(p)
  \/ DeleteSessionRemove(p)

\* a registry with room for MaxSessionsCfg sessions
LiveInit == Init /\ config.MaxSessions = MaxSessionsCfg

\* Scheduling the Go runtime guarantees: a goroutine that holds the mutex keeps
\* running until it has released it, and the sweeper's loop keeps running.  The
\* ticker fires for ever and every Lock() call returns in the end: a waiting
\* writer shuts out new readers (sync.RWMutex), and a starving waiter is handed
\* the lock (sync.Mutex), so the sweeper takes the lock again and again.
LiveSpec ==
  /\ LiveInit
  /\ [][Next]_vars
  /\ []<><<CleanupLock>>_vars
  /\ WF_vars(SweepStep)
  /\ \A p \in Threads : WF_vars(LockedStep(p))

\* ---- the registry with its two read-only calls ----------------------------------

\* the calls of the session service, ListSessions and GetStats included, with
\* generateSessionID giving every session the same id, and with the wait of
\* CreateSession's Lock() for the readers as a step of its own
LockNext ==
  \/ \E p \in Threads, req \in Requests : CreateSessionCheck(p, req)
  \/ \E p \in Threads : CreateSessionDialFail(p)
  \/ \E p \in Threads : CreateSessionSFTPFail(p)
  \/ \E p \in Threads : CreateSessionIDFail(p)
  \/ \E p \in Threads : CreateSessionConnect(p, 1)
  \/ \E p \in Threads : CreateSessionStore(p)
  \/ \E p \in Threads, id \in IDs : GetSessionCheck(p, id)
  \/ \E p \in Threads : GetSessionExpired(p)
  \/ \E p \in Threads : GetSessionNow(p)
  \/ \E p \in Threads : GetSessionUpdate(p)
  \/ \E p \in Threads : HandlerOpBegin(p)
  \/ \E p \in Threads, more \in BOOLEAN : HandlerOpEnd(p, more)
  \/ \E p \in Threads, id \in IDs : DeleteSessionLookup(p, id)
  \/ \E p \in Procs, e \in BOOLEAN : SessionClose1(p, e)
  \/ \E p \in Procs : SessionCloseNil(p)
  \/ \E p \in Procs, e \in BOOLEAN : SessionClose2(p, e)
  \/ \E p \in Threads : DeleteSessionRemove(p)
  \/ CleanupLock
  \/ \E id \in IDs : CleanupScan(id)
  \/ CleanupFetch
  \/ CleanupRemove
  \/ CleanupReturn
  \/ Tick
  \/ \E p \in Threads : ListSessionsLock(p)
  \/ \E p \in Threads : ListSessionsReturn(p)
  \/ \E p \in Threads : GetStatsLock(p)
  \/ \E p \in Threads : GetStatsReturn(p)
  \/ \E p \in Threads : CreateSessionLockWait(p)

\* a registry that holds one session
LockInit == Init /\ config.MaxSessions = 1

LockSpec == LockInit /\ [][LockNext]_vars

\* the next step of goroutine p inside a call, where that step does not wait
\* for the lock
CallStep(p) ==
  \/ CreateSessionDialFail(p) \/ CreateSessionSFTPFail(p) \/ CreateSessionIDFail(p)
  \/ CreateSessionConnect(p, 1)
  \/ GetSessionExpired(p) \/ GetSessionNow(p) \/ GetSessionUpdate(p)
  \/ ListSessionsReturn(p)
  \/ GetStatsReturn(p)
  \/ \E e \in BOOLEAN : SessionClose1(p, e) \/ SessionClose2(p, e)
  \/ SessionCloseNil(p)
  \/ DeleteSessionRemove(p)

\* Scheduling: a goroutine inside a call keeps running, ssh.Dial and
\* sftp.NewClient return (the dial has a 30 s timeout), every close returns,
\* and a goroutine that calls Lock() gets its turn among the writers once the
\* mutex has been free of writers often enough (sync.Mutex hands the lock to a
\* starving waiter).
LockLiveSpec ==
  /\ LockSpec
  /\ \A p \in Threads :
       /\ WF_vars(CallStep(p))
       /\ SF_vars(CreateSessionStore(p) \/ CreateSessionLockWait(p))
  /\ WF_vars(SweepStep)

\* ---- the archive builder (FileService.DownloadMultiple) ----------------------
\* Paths and ZIP entry names are strings, modelled as sequences of characters.

Slash == "/"
Dot == "."

\* strings.Split(path, "/"): the parts between separators, empty ones included
RECURSIVE SplitSlash(_, _)
SplitSlash(path, part) ==
  IF path = <<>> THEN <<part>>
  ELSE IF Head(path) = Slash THEN <<part>> \o SplitSlash(Tail(path), <<>>)
  ELSE SplitSlash(Tail(path), Append(part, Head(path)))

\* strings.Join(parts, "/")
RECURSIVE JoinSlash(_)
JoinSlash(parts) ==
  IF parts = <<>> THEN <<>>
  ELSE IF Len(parts) = 1 THEN parts[1]
  ELSE parts[1] \o <<Slash>> \o JoinSlash(Tail(parts))

\* the element loop of filepath.Clean: drops empty and "." elements, lets ".."
\* take back the element before it, keeps a leading ".." only in unrooted paths
RECURSIVE CleanParts(_, _, _)
CleanParts(parts, out, rooted) ==
  IF parts = <<>> THEN out
  ELSE LET e == Head(parts) IN
    IF e = <<>> \/ e = <<Dot>> THEN CleanParts(Tail(parts), out, rooted)
    ELSE IF e = <<Dot, Dot>> THEN
      IF out # <<>> /\ out[Len(out)] # <<Dot, Dot>>
        THEN CleanParts(Tail(parts), SubSeq(out, 1, Len(out) - 1), rooted)
      ELSE IF rooted THEN CleanParts(Tail(parts), out, rooted)
      ELSE CleanParts(Tail(parts), Append(out, e), rooted)
    ELSE CleanParts(Tail(parts), Append(out, e), rooted)

\* filepath.Clean / path.Clean (Unix separators)
Clean(path) ==
  IF path = <<>> THEN <<Dot>>
  ELSE LET rooted == Head(path) = Slash
           body == JoinSlash(CleanParts(SplitSlash(path, <<>>), <<>>, rooted))
           res == IF rooted THEN <<Slash>> \o body ELSE body
       IN IF res = <<>> THEN <<Dot>> ELSE res

\* filepath.Base: the last element; "." for the empty path, "/" for a path of
\* separators only
RECURSIVE StripTrailingSlashes(_)
StripTrailingSlashes(path) ==
  IF path # <<>> /\ path[Len(path)] = Slash
    THEN StripTrailingSlashes(SubSeq(path, 1, Len(path) - 1))
    ELSE path

Base(path) ==
  IF path = <<>> THEN <<Dot>>
  ELSE LET p == StripTrailingSlashes(path) IN
    IF p = <<>> THEN <<Slash>>
    ELSE LET parts == SplitSlash(p, <<>>) IN parts[Len(parts)]

\* path.Join(dir, name)
Join(dir, name) == Clean(dir \o <<Slash>> \o name)


\* ---- the remote tree DownloadMultiple walks -----------------------------------
\* A node is the sequence of the names on its absolute path; the root is <<>>.

NameA == <<"a">>
NameB == <<"b">>

\* /a, /b/a and /b/b/a are files; /, /b, /b/b and the empty /b/b/b are directories
ZFiles == {<<NameA>>, <<NameB, NameA>>, <<NameB, NameB, NameA>>}
ZDirs == {<<>>, <<NameB>>, <<NameB, NameB>>, <<NameB, NameB, NameB>>}

\* the node a cleaned path names; relative paths start at the session's
\* working directory, which is the root here
Resolve(path) == CleanParts(SplitSlash(path, <<>>), <<>>, TRUE)

\* what SFTPClient.ReadDir lists for a directory node: name and IsDir() of each child
ReadDir(node) ==
  LET fileA == [name |-> NameA, isDir |-> FALSE]
      dirB == [name |-> NameB, isDir |-> TRUE] IN
    IF node \in {<<>>, <<NameB>>, <<NameB, NameB>>} THEN <<fileA, dirB>>
    ELSE <<>>

\* the filePaths a request may carry
ZPathChoices ==
  { <<>>, <<Slash>>, <<Slash, "a">>, <<Slash, "b">>, <<Slash, "b", Slash>>,
    <<"b", Slash, Slash, "b">>, <<Slash, "c">>, <<Slash, "b", Slash, "a">> }

MaxPaths == 2
ZPathLists == UNION {[1..n -> ZPathChoices] : n \in 0..MaxPaths}

\* the zip.Writer and the sink under it, as the walk sees them
Writer == [entries |-> zentries, sink |-> zsink]

\* ---- addFileToZip ---------------------------------------------------------------
\* out is what goes wrong in the call: "open" (SFTPClient.Open fails), "create"
\* (zipWriter.Create fails: w returns an error), "copy" (io.Copy fails reading
\* the remote file), "copysink" (io.Copy fails writing to w), or "ok".
\* Once w has failed every later Create fails.  Create has added the entry to
\* the archive when it returns without error; full tells whether the whole
\* content followed.
FileOutcomes(w) ==
  IF w.sink THEN {"open", "create"} ELSE {"ok", "open", "create", "copy", "copysink"}

\* defer file.Close(): whatever the outcome of Create and io.Copy, the stream
\* Open returned is closed when addFileToZip returns; n streams were open
FileCloseOnSuccessOnly(n, out) == IF out = "ok" THEN n - 1 ELSE n
FileClose(n, out) == n - 1

addFileToZip(w, zipPath, out) ==
  [entries |-> IF out \in {"open", "create"} THEN w.entries
               ELSE Append(w.entries,
                           [name |-> zipPath, isDir |-> FALSE, full |-> out = "ok"]),
   sink |-> (w.sink \/ out \in {"create", "copysink"})]

\* ---- addDirectoryToZip -----------------------------------------------------------
\* the part before the loop: ReadDir, then the directory entry zipPath + "/"
\* unless zipPath is empty; out is "list" (ReadDir fails), "create"
\* (zipWriter.Create fails) or "ok"
DirOutcomes(w, zipPath) ==
  IF w.sink /\ zipPath # <<>> THEN {"list", "create"}
  ELSE IF zipPath = <<>> THEN {"ok", "list"}
  ELSE {"ok", "list", "create"}

addDirectoryToZipNoEntry(w, zipPath, out) ==
  [entries |-> w.entries, sink |-> (w.sink \/ out = "create")]
addDirectoryToZip(w, zipPath, out) ==
  [entries |-> IF out = "ok" /\ zipPath # <<>>
                 THEN Append(w.entries,
                             [name |-> zipPath \o <<Slash>>, isDir |-> TRUE, full |-> TRUE])
                 ELSE w.entries,
   sink |-> (w.sink \/ out = "create")]

\* the call frame of an addDirectoryToZip that has reached its loop
Frame(dirPath, zipPath) ==
  [dirPath |-> dirPath, zipPath |-> zipPath, files |-> ReadDir(Resolve(dirPath))]

SetWriter(w) ==
  /\ zentries' = w.entries
  /\ zsink' = w.sink

\* one iteration of `for _, file := range files` in the innermost call: a
\* subdirectory starts a nested call, a file is added; errors are dropped
addDirectoryToZipLoop(out) ==
  /\ zpc = "loop"
  /\ zstack # <<>>
  /\ zstack[Len(zstack)].files # <<>>
  /\ LET top == zstack[Len(zstack)]
         stack == [zstack EXCEPT ![Len(zstack)].files = Tail(top.files)]
         file == Head(top.files)
         remotePath == Join(top.dirPath, file.name)
         localZipPath == top.zipPath \o <<Slash>> \o file.name IN
       IF file.isDir
         THEN /\ out \in DirOutcomes(Writer, localZipPath)
              /\ SetWriter(addDirectoryToZip(Writer, localZipPath, out))
              /\ zstack' = IF out = "ok"
                             THEN Append(stack, Frame(remotePath, localZipPath))
                             ELSE stack
              /\ UNCHANGED <<zopen, zfile>>
         ELSE /\ out \in FileOutcomes(Writer)
              /\ zfile <=> out # "open"
              /\ SetWriter(addFileToZip(Writer, localZipPath, out))
              /\ zstack' = stack
              /\ zopen' = IF zfile THEN FileClose(zopen, out) ELSE zopen
              /\ zfile' = FALSE
  /\ UNCHANGED <<zpc, zpaths, zcloses, ztrailer, zret, zok, regVars, fsVars, pathVars, rateVars, listVars>>

\* the element the loop is at is a file
HeadIsFile ==
  IF zstack # <<>>
    THEN zstack[Len(zstack)].files # <<>> /\ ~Head(zstack[Len(zstack)].files).isDir
    ELSE zpaths # <<>> /\ Resolve(Clean(Head(zpaths))) \in ZFiles

\* addFileToZip, first part: session.SFTPClient.Open(filePath) returns a
\* stream (after a Stat that succeeded, for a requested path); the rest of the
\* call is the loop step that follows
addFileToZipOpen ==
  /\ zpc = "loop"
  /\ HeadIsFile
  /\ ~zfile
  /\ zfile' = TRUE
  /\ zopen' = zopen + 1
  /\ UNCHANGED <<zpc, zpaths, zstack, zentries, zsink, zcloses, ztrailer, zret, zok, regVars, fsVars, pathVars, rateVars, listVars>>

\* the innermost addDirectoryToZip has finished its loop: return nil
addDirectoryToZipReturn ==
  /\ zpc = "loop"
  /\ zstack # <<>>
  /\ zstack[Len(zstack)].files = <<>>
  /\ zstack' = SubSeq(zstack, 1, Len(zstack) - 1)
  /\ UNCHANGED <<zpc, zpaths, zentries, zsink, zcloses, ztrailer, zret, zok, zopen, zfile, regVars, fsVars, pathVars, rateVars, listVars>>

\* ---- DownloadMultiple --------------------------------------------------------------

\* GetSession fails: the error is returned before any writer exists; otherwise
\* zip.NewWriter(w) and the deferred zipWriter.Close()
DownloadMultipleStart(filePaths, found) ==
  /\ zpc = "idle"
  /\ IF found
       THEN zpc' = "loop" /\ zpaths' = filePaths /\ zret' = zret
       ELSE zpc' = "done" /\ zpaths' = zpaths /\ zret' = "ErrSessionNotFound"
  /\ UNCHANGED <<zstack, zentries, zsink, zcloses, ztrailer, zok, zopen, zfile, regVars, fsVars, pathVars, rateVars, listVars>>

\* one iteration of `for _, filePath := range filePaths`: Clean, Stat, then
\* addDirectoryToZip or addFileToZip under filepath.Base of the cleaned path;
\* out = "stat": Stat fails, as it does for a path that names nothing
DownloadMultipleNext(out) ==
  /\ zpc = "loop"
  /\ zstack = <<>>
  /\ zpaths # <<>>
  /\ LET cleanPath == Clean(Head(zpaths))
         node == Resolve(cleanPath)
         zipPath == Base(cleanPath) IN
       IF out = "stat" \/ node \notin ZFiles \cup ZDirs
         THEN /\ out = "stat"
              /\ ~zfile
              /\ UNCHANGED <<zentries, zsink, zstack, zopen, zfile>>
         ELSE IF node \in ZDirs
           THEN /\ out \in DirOutcomes(Writer, zipPath)
                /\ SetWriter(addDirectoryToZip(Writer, zipPath, out))
                /\ zstack' = IF out = "ok" THEN <<Frame(cleanPath, zipPath)>> ELSE zstack
                /\ UNCHANGED <<zopen, zfile>>
           ELSE /\ out \in FileOutcomes(Writer)
                /\ zfile <=> out # "open"
                /\ SetWriter(addFileToZip(Writer, zipPath, out))
                /\ zstack' = zstack
                /\ zopen' = IF zfile THEN FileClose(zopen, out) ELSE zopen
                /\ zfile' = FALSE
  /\ zpaths' = Tail(zpaths)
  /\ zok' = IF out = "ok" THEN zok + 1 ELSE zok
  /\ UNCHANGED <<zpc, zcloses, ztrailer, zret, regVars, fsVars, pathVars, rateVars, listVars>>

\* the loop is over: return nil, and the deferred zipWriter.Close() writes the
\* central directory unless w fails (sinkFails) or has failed before
DownloadMultipleReturn(sinkFails) ==
  /\ zpc = "loop"
  /\ zstack = <<>>
  /\ zpaths = <<>>
  /\ zsink => sinkFails
  /\ zcloses' = zcloses + 1
  /\ ztrailer' = ~sinkFails
  /\ zsink' = sinkFails
  /\ zret' = "nil"
  /\ zpc' = "done"
  /\ UNCHANGED <<zpaths, zstack, zentries, zok, zopen, zfile, regVars, fsVars, pathVars, rateVars, listVars>>

ZipOutcomes == {"ok", "stat", "list", "open", "create", "copy", "copysink"}

ZipNext ==
  \/ \E filePaths \in ZPathLists, found \in BOOLEAN : DownloadMultipleStart(filePaths, found)
  \/ \E out \in ZipOutcomes : DownloadMultipleNext(out)
  \/ \E out \in ZipOutcomes : addDirectoryToZipLoop(out)
  \/ addFileToZipOpen
  \/ addDirectoryToZipReturn
  \/ \E sinkFails \in BOOLEAN : DownloadMultipleReturn(sinkFails)

\* one DownloadMultiple call on its own; the registry is not touched
ZipInit == Init /\ config.MaxSessions = MaxSessionsCfg

ZipSpec == ZipInit /\ [][ZipNext]_vars

\* ---- FileService: PreviewFile, UploadFile, CreateDirectory, DeleteFile(s) ------
\* One call at a time on one session. Every call of the SFTP client fails once
\* the connection has broken, and Stat, Open, Create, Mkdir, Remove and the
\* data transfers can also fail on their own (permissions, quota), which the
\* parameter `out` of a step chooses.

\* an SFTPClient call, as recorded in flog; n: bytes transferred
Op(name, path, n) == [op |-> name, path |-> path, n |-> n]

\* session.SFTPClient.Stat(p) returns an error: the path is missing, the
\* connection has broken, or the remote refuses this one call (out = "stat")
StatFails(p, out) == out = "stat" \/ fbroken \/ fs[p].kind = "none"

\* the entries of directory d
Children(tree, d) == {p \in FPaths : Parent(p) = d /\ tree[p].kind # "none"}

\* the file after b was written over the first bytes of old
Overwrite(old, b) == b \o SubSeq(old, Len(b) + 1, Len(old))

\* a call that is not part of a DeleteMultipleFiles loop returns res
FileReturn(res) ==
  /\ fpc' = "returned"
  /\ fres' = res

\* the handler has written its response from what the call returned
FileCallDone ==
  /\ fpc = "returned"
  /\ fpc' = "idle"
  /\ fcall' = NoCall
  /\ flog' = <<>>
  /\ fres' = NoFRes
  /\ fbatch' = NoBatch
  /\ UNCHANGED <<fs, fbroken, regVars, zipVars, pathVars, rateVars, listVars>>

\* the session lookup at the head of every FileService method
FileCallStart(call, found, next) ==
  /\ fcall' = call
  /\ flog' = <<>>
  /\ IF found
       THEN fpc' = next /\ fres' = NoFRes
       ELSE FileReturn(FRes("ErrSessionNotFound"))

\* -- PreviewFile --

\* stat.Size() > maxSize
TooLargeOffByOne(size, maxSize) == size >= maxSize
TooLarge(size, maxSize) == size > maxSize

\* session, err := f.sessionService.GetSession(sessionID)
PreviewFileStart(filePath, maxSize, found) ==
  /\ fpc = "idle"
  /\ FileCallStart([NoCall EXCEPT !.op = "PreviewFile", !.path = filePath,
                                  !.maxSize = maxSize], found, "pv_stat")
  /\ UNCHANGED <<fs, fbroken, fbatch, regVars, zipVars, pathVars, rateVars, listVars>>

\* Stat, the directory test and the size test
PreviewFileStat(out) ==
  /\ fpc = "pv_stat"
  /\ out \in {"ok", "stat"}
  /\ flog' = Append(flog, Op("Stat", fcall.path, 0))
  /\ IF StatFails(fcall.path, out)
       THEN FileReturn(FRes("failed to stat file"))
       ELSE IF fs[fcall.path].kind = "dir"
         THEN FileReturn(FRes("cannot preview directory"))
         ELSE IF TooLarge(Len(fs[fcall.path].data), fcall.maxSize)
           THEN FileReturn(FRes("file too large for preview"))
           ELSE fpc' = "pv_open" /\ UNCHANGED fres
  /\ UNCHANGED <<fs, fbroken, fcall, fbatch, regVars, zipVars, pathVars, rateVars, listVars>>

\* Open, io.ReadAll (which reads to the end of the file as it is now), the
\* deferred Close and the return; n: the bytes read before a failing read
PreviewFileRead(out, n) ==
  /\ fpc = "pv_open"
  /\ out \in {"ok", "open", "read"}
  /\ fbroken => out = "open"
  /\ LET path == fcall.path
         data == fs[path].data
     IN  CASE out = "open" ->
                /\ n = 0
                /\ flog' = Append(flog, Op("Open", path, 0))
                /\ FileReturn(FRes("failed to open file"))
           [] out = "read" ->
                /\ n \in 0..Len(data)
                /\ flog' = flog \o <<Op("Open", path, 0), Op("Read", path, n)>>
                /\ FileReturn(FRes("failed to read file"))
           [] out = "ok" ->
                /\ n = Len(data)
                /\ flog' = flog \o <<Op("Open", path, 0), Op("Read", path, n)>>
                /\ FileReturn([FRes("nil") EXCEPT !.content = data])
  /\ UNCHANGED <<fs, fbroken, fcall, fbatch, regVars, zipVars, pathVars, rateVars, listVars>>

\* -- UploadFile --

\* GetSession; `if !overwrite` decides whether Stat is called at all
UploadFileStart(destPath, src, overwrite, found) ==
  /\ fpc = "idle"
  /\ FileCallStart([NoCall EXCEPT !.op = "UploadFile", !.path = destPath,
                                  !.src = src, !.overwrite = overwrite],
                   found, IF overwrite THEN "up_create" ELSE "up_stat")
  /\ UNCHANGED <<fs, fbroken, fbatch, regVars, zipVars, pathVars, rateVars, listVars>>

\* if _, err := session.SFTPClient.Stat(destPath); err == nil { return exists }
UploadFileStat(out) ==
  /\ fpc = "up_stat"
  /\ out \in {"ok", "stat"}
  /\ flog' = Append(flog, Op("Stat", fcall.path, 0))
  /\ IF StatFails(fcall.path, out)
       THEN fpc' = "up_create" /\ UNCHANGED fres
       ELSE FileReturn(FRes("file already exists"))
  /\ UNCHANGED <<fs, fbroken, fcall, fbatch, regVars, zipVars, pathVars, rateVars, listVars>>

\* session.SFTPClient.Create(destPath): creates the file or truncates it
UploadFileCreate(out) ==
  /\ fpc = "up_create"
  /\ out \in {"ok", "create"}
  /\ flog' = Append(flog, Op("Create", fcall.path, 0))
  /\ IF \/ out = "create"
        \/ fbroken
        \/ fs[fcall.path].kind = "dir"
        \/ (Parent(fcall.path) # "/" /\ fs[Parent(fcall.path)].kind # "dir")
       THEN FileReturn(FRes("failed to create file")) /\ UNCHANGED fs
       ELSE /\ fs' = [fs EXCEPT ![fcall.path] = FileNode(<<>>)]
            /\ fpc' = "up_copy"
            /\ UNCHANGED fres
  /\ UNCHANGED <<fbroken, fcall, fbatch, regVars, zipVars, pathVars, rateVars, listVars>>

\* io.Copy(dstFile, src), the deferred Close and the return; n: the bytes
\* written before a failing copy
UploadFileCopy(out, n) ==
  /\ fpc = "up_copy"
  /\ out \in {"ok", "copy"}
  /\ (fbroken /\ fcall.src # <<>>) => (out = "copy" /\ n = 0)
  /\ n \in 0..Len(fcall.src)
  /\ out = "ok" => n = Len(fcall.src)
  /\ fs' = [fs EXCEPT ![fcall.path].data = Overwrite(@, SubSeq(fcall.src, 1, n))]
  /\ flog' = IF n > 0 THEN Append(flog, Op("Write", fcall.path, n)) ELSE flog
  /\ FileReturn(FRes(IF out = "ok" THEN "nil" ELSE "failed to upload file"))
  /\ UNCHANGED <<fbroken, fcall, fbatch, regVars, zipVars, pathVars, rateVars, listVars>>

\* -- CreateDirectory --

\* session, err := f.sessionService.GetSession(sessionID)
CreateDirectoryStart(dirPath, found) ==
  /\ fpc = "idle"
  /\ FileCallStart([NoCall EXCEPT !.op = "CreateDirectory", !.path = dirPath],
                   found, "mk_mkdir")
  /\ UNCHANGED <<fs, fbroken, fbatch, regVars, zipVars, pathVars, rateVars, listVars>>

\* return session.SFTPClient.Mkdir(dirPath): the remote refuses a path that
\* exists and one whose parent is no directory
CreateDirectoryMkdir(out) ==
  /\ fpc = "mk_mkdir"
  /\ out \in {"ok", "mkdir"}
  /\ flog' = Append(flog, Op("Mkdir", fcall.path, 0))
  /\ IF \/ out = "mkdir"
        \/ fbroken
        \/ fs[fcall.path].kind # "none"
        \/ (Parent(fcall.path) # "/" /\ fs[Parent(fcall.path)].kind # "dir")
       THEN FileReturn(FRes("mkdir failed")) /\ UNCHANGED fs
       ELSE /\ fs' = [fs EXCEPT ![fcall.path] = DirNode]
            /\ FileReturn(FRes("nil"))
  /\ UNCHANGED <<fbroken, fcall, fbatch, regVars, zipVars, pathVars, rateVars, listVars>>

\* -- DeleteFile and DeleteMultipleFiles --

MaxBatch == 2
BatchLists == UNION {[1..n -> FPaths] : n \in 0..MaxBatch}

\* DeleteFile returns err: to its caller, or into the loop of DeleteMultipleFiles
\* (failed = append(failed, filePath) or deleted = append(deleted, filePath))
DeleteFileReturn(filePath, err) ==
  /\ fres' = FRes(err)
  /\ IF fbatch.active
       THEN /\ fpc' = "dm_loop"
            /\ fbatch' = [fbatch EXCEPT
                 !.rest = Tail(@),
                 !.deleted = IF err = "nil" THEN Append(@, filePath) ELSE @,
                 !.failed = IF err = "nil" THEN @ ELSE Append(@, filePath),
                 !.errs = Append(@, err)]
       ELSE /\ fpc' = "returned"
            /\ UNCHANGED fbatch

\* DeleteFile is entered: GetSession
DeleteFileEnter(filePath, found) ==
  /\ fcall' = [NoCall EXCEPT !.op = "DeleteFile", !.path = filePath]
  /\ flog' = <<>>
  /\ IF found
       THEN fpc' = "del_stat" /\ UNCHANGED <<fres, fbatch>>
       ELSE DeleteFileReturn(filePath, "ErrSessionNotFound")
  /\ UNCHANGED <<fs, fbroken, regVars, zipVars, pathVars, rateVars, listVars>>

\* a handler calls DeleteFile
DeleteFileStart(filePath, found) ==
  /\ fpc = "idle"
  /\ DeleteFileEnter(filePath, found)

\* stat, err := session.SFTPClient.Stat(filePath)
DeleteFileStat(out) ==
  /\ fpc = "del_stat"
  /\ out \in {"ok", "stat"}
  /\ flog' = Append(flog, Op("Stat", fcall.path, 0))
  /\ IF StatFails(fcall.path, out)
       THEN DeleteFileReturn(fcall.path, "failed to stat file") /\ UNCHANGED fcall
       ELSE /\ fcall' = [fcall EXCEPT !.isDir = fs[fcall.path].kind = "dir"]
            /\ fpc' = "del_remove"
            /\ UNCHANGED <<fres, fbatch>>
  /\ UNCHANGED <<fs, fbroken, regVars, zipVars, pathVars, rateVars, listVars>>

\* RemoveDirectory for a directory (the remote refuses a non-empty one),
\* Remove for anything else
DeleteFileRemoveRecursive(out) ==
  /\ fpc = "del_remove"
  /\ out \in {"ok", "remove"}
  /\ flog' = Append(flog, Op(IF fcall.isDir THEN "RemoveDirectory" ELSE "Remove",
                             fcall.path, 0))
  /\ IF out = "remove" \/ fbroken
       THEN DeleteFileReturn(fcall.path, "remove failed") /\ UNCHANGED fs
       ELSE /\ fs' = [p \in FPaths |-> IF p = fcall.path \/ Parent(p) = fcall.path
                                        THEN NoNode ELSE fs[p]]
            /\ DeleteFileReturn(fcall.path, "nil")
  /\ UNCHANGED <<fbroken, fcall, regVars, zipVars, pathVars, rateVars, listVars>>
DeleteFileRemove(out) ==
  /\ fpc = "del_remove"
  /\ out \in {"ok", "remove"}
  /\ flog' = Append(flog, Op(IF fcall.isDir THEN "RemoveDirectory" ELSE "Remove",
                             fcall.path, 0))
  /\ IF \/ out = "remove"
        \/ fbroken
        \/ fs[fcall.path].kind # (IF fcall.isDir THEN "dir" ELSE "file")
        \/ (fcall.isDir /\ Children(fs, fcall.path) # {})
       THEN DeleteFileReturn(fcall.path, "remove failed") /\ UNCHANGED fs
       ELSE /\ fs' = [fs EXCEPT ![fcall.path] = NoNode]
            /\ DeleteFileReturn(fcall.path, "nil")
  /\ UNCHANGED <<fbroken, fcall, regVars, zipVars, pathVars, rateVars, listVars>>

\* var deleted, failed []string
DeleteMultipleFilesStart(filePaths) ==
  /\ fpc = "idle"
  /\ fbatch' = [active |-> TRUE, input |-> filePaths, rest |-> filePaths,
                deleted |-> <<>>, failed |-> <<>>, errs |-> <<>>]
  /\ fcall' = [NoCall EXCEPT !.op = "DeleteMultipleFiles"]
  /\ flog' = <<>>
  /\ fres' = NoFRes
  /\ fpc' = "dm_loop"
  /\ UNCHANGED <<fs, fbroken, regVars, zipVars, pathVars, rateVars, listVars>>

\* one iteration of `for _, filePath := range filePaths`: f.DeleteFile is called
DeleteMultipleFilesNext(found) ==
  /\ fpc = "dm_loop"
  /\ fbatch.rest # <<>>
  /\ DeleteFileEnter(Head(fbatch.rest), found)

\* return deleted, failed
DeleteMultipleFilesReturnEarly ==
  /\ fpc = "dm_loop"
  /\ fbatch.rest = <<>> \/ fbatch.failed # <<>>
  /\ fres' = [FRes("nil") EXCEPT !.deleted = fbatch.deleted, !.failed = fbatch.failed]
  /\ fbatch' = [fbatch EXCEPT !.active = FALSE]
  /\ fpc' = "returned"
  /\ UNCHANGED <<fs, fbroken, fcall, flog, regVars, zipVars, pathVars, rateVars, listVars>>
DeleteMultipleFilesReturn ==
  /\ fpc = "dm_loop"
  /\ fbatch.rest = <<>>
  /\ fres' = [FRes("nil") EXCEPT !.deleted = fbatch.deleted, !.failed = fbatch.failed]
  /\ fbatch' = [fbatch EXCEPT !.active = FALSE]
  /\ fpc' = "returned"
  /\ UNCHANGED <<fs, fbroken, fcall, flog, regVars, zipVars, pathVars, rateVars, listVars>>

\* -- the remote side --

\* somebody else rewrites a remote file
RemoteWrite(p, c) ==
  /\ fs[p].kind = "file"
  /\ c # fs[p].data
  /\ fs' = [fs EXCEPT ![p].data = c]
  /\ UNCHANGED <<fbroken, fpc, fcall, flog, fres, fbatch, regVars, zipVars, pathVars, rateVars, listVars>>

\* somebody else (a second uploader) creates a remote file
RemoteCreate(p) ==
  /\ fs[p].kind = "none"
  /\ ~(Parent(p) # "/" /\ fs[Parent(p)].kind # "dir")
  /\ fs' = [fs EXCEPT ![p] = FileNode(<<>>)]
  /\ UNCHANGED <<fbroken, fpc, fcall, flog, fres, fbatch, regVars, zipVars, pathVars, rateVars, listVars>>

\* the session's connection breaks
ConnBreak ==
  /\ ~fbroken
  /\ fbroken' = TRUE
  /\ UNCHANGED <<fs, fpc, fcall, flog, fres, fbatch, regVars, zipVars, pathVars, rateVars, listVars>>

FileNext ==
  \/ \E filePath \in FPaths, maxSize \in 0..MaxFileSize, found \in BOOLEAN :
       PreviewFileStart(filePath, maxSize, found)
  \/ \E out \in {"ok", "stat"} : PreviewFileStat(out)
  \/ \E out \in {"ok", "open", "read"}, n \in 0..MaxFileSize : PreviewFileRead(out, n)
  \/ \E destPath \in FPaths, src \in Contents, overwrite \in BOOLEAN, found \in BOOLEAN :
       UploadFileStart(destPath, src, overwrite, found)
  \/ \E out \in {"ok", "stat"} : UploadFileStat(out)
  \/ \E out \in {"ok", "create"} : UploadFileCreate(out)
  \/ \E out \in {"ok", "copy"}, n \in 0..MaxFileSize : UploadFileCopy(out, n)
  \/ \E dirPath \in FPaths, found \in BOOLEAN : CreateDirectoryStart(dirPath, found)
  \/ \E out \in {"ok", "mkdir"} : CreateDirectoryMkdir(out)
  \/ \E filePath \in FPaths, found \in BOOLEAN : DeleteFileStart(filePath, found)
  \/ \E out \in {"ok", "stat"} : DeleteFileStat(out)
  \/ \E out \in {"ok", "remove"} : DeleteFileRemove(out)
  \/ \E filePaths \in BatchLists : DeleteMultipleFilesStart(filePaths)
  \/ \E found \in BOOLEAN : DeleteMultipleFilesNext(found)
  \/ DeleteMultipleFilesReturn
  \/ FileCallDone
  \/ \E p \in FPaths, c \in Contents : RemoteWrite(p, c)
  \/ \E p \in FPaths : RemoteCreate(p)
  \/ ConnBreak

\* the file operations on their own; the registry and the archive builder rest
FileInit == Init /\ config.MaxSessions = MaxSessionsCfg

FileSpec == FileInit /\ [][FileNext]_vars

\* ---- CreateSession's home directory and FileService.ListFiles -----------------
\* File names and filters are strings, modelled as sequences of characters.

\* the byte value of a character, as far as names are compared
Code(c) ==
  CASE c = "." -> 46 [] c = "/" -> 47
    [] c = "A" -> 65 [] c = "B" -> 66 [] c = "C" -> 67 [] c = "F" -> 70
    [] c = "G" -> 71 [] c = "I" -> 73
    [] c = "a" -> 97 [] c = "b" -> 98 [] c = "c" -> 99 [] c = "f" -> 102
    [] c = "g" -> 103 [] c = "h" -> 104 [] c = "i" -> 105
    [] OTHER -> 120

\* strings.ToLower, character by character
ToLowerChar(c) ==
  CASE c = "A" -> "a" [] c = "B" -> "b" [] c = "C" -> "c" [] c = "F" -> "f"
    [] c = "G" -> "g" [] c = "I" -> "i"
    [] OTHER -> c
ToLower(str) == [i \in DOMAIN str |-> ToLowerChar(str[i])]

\* a < b on strings: byte-wise lexicographic order
RECURSIVE StrLess(_, _)
StrLess(a, b) ==
  IF b = <<>> THEN FALSE
  ELSE IF a = <<>> THEN TRUE
  ELSE IF Code(Head(a)) < Code(Head(b)) THEN TRUE
  ELSE IF Code(Head(a)) > Code(Head(b)) THEN FALSE
  ELSE StrLess(Tail(a), Tail(b))

\* strings.HasPrefix(str, prefix)
HasPrefix(str, prefix) ==
  Len(str) >= Len(prefix) /\ SubSeq(str, 1, Len(prefix)) = prefix

\* strings.Contains(str, sub)
Contains(str, sub) ==
  \E i \in 1..(Len(str) + 1) :
    i + Len(sub) - 1 <= Len(str) /\ SubSeq(str, i, i + Len(sub) - 1) = sub

\* filepath.Ext: the suffix from the last dot of the last path element on
Ext(name) ==
  LET dots == {i \in DOMAIN name : name[i] = Dot /\ \A j \in i..Len(name) : name[j] # Slash}
  IN  IF dots = {} THEN <<>>
      ELSE LET i == CHOOSE d \in dots : \A e \in dots : e <= d
           IN  SubSeq(name, i, Len(name))

\* utils.IsImageFile etc.: of each extension list, the entries that names over
\* the characters above can have
IsImageFile(ext) == ToLower(ext) \in {<<".", "g", "i", "f">>}
IsDocumentFile(ext) == ToLower(ext) \in {}
IsArchiveFile(ext) == ToLower(ext) \in {}
IsCodeFile(ext) ==
  ToLower(ext) \in {<<".", "c">>, <<".", "c", "c">>, <<".", "h">>, <<".", "c", "f", "g">>}

FilterImages == <<"i", "m", "a", "g", "e", "s">>
FilterDocuments == <<"d", "o", "c", "u", "m", "e", "n", "t", "s">>
FilterArchives == <<"a", "r", "c", "h", "i", "v", "e", "s">>
FilterCode == <<"c", "o", "d", "e">>

\* (f *FileService) matchesFilter
matchesFilter(filename, filter) ==
  LET name == ToLower(filename)
      flt == ToLower(filter)
  IN  CASE flt = FilterImages -> IsImageFile(Ext(name))
        [] flt = FilterDocuments -> IsDocumentFile(Ext(name))
        [] flt = FilterArchives -> IsArchiveFile(Ext(name))
        [] flt = FilterCode -> IsCodeFile(Ext(name))
        [] OTHER -> Contains(name, flt)

\* !showHidden && strings.HasPrefix(info.Name(), ".")
SkipHiddenAlways(name, showHidden) == HasPrefix(name, <<Dot>>)
SkipHidden(name, showHidden) == ~showHidden /\ HasPrefix(name, <<Dot>>)

\* the loop of ListFiles over the ReadDir result: the entries that are not
\* skipped, as models.FileInfo values
RECURSIVE ListLoop(_, _, _, _)
ListLoop(fileInfos, dirPath, showHidden, filter) ==
  IF fileInfos = <<>> THEN <<>>
  ELSE LET info == Head(fileInfos)
           rest == ListLoop(Tail(fileInfos), dirPath, showHidden, filter)
       IN  IF SkipHidden(info.Name, showHidden) THEN rest
           ELSE IF filter # <<>> /\ ~matchesFilter(info.Name, filter) THEN rest
           ELSE <<[Name |-> info.Name, IsDir |-> info.IsDir,
                   Path |-> Join(dirPath, info.Name)]>> \o rest

\* the less function ListFiles hands to sort.Slice
LessCaseSensitive(x, y) ==
  IF x.IsDir # y.IsDir THEN x.IsDir ELSE StrLess(x.Name, y.Name)
Less(x, y) ==
  IF x.IsDir # y.IsDir THEN x.IsDir ELSE StrLess(ToLower(x.Name), ToLower(y.Name))

\* sort.Slice on a slice of fewer than 12 elements is an insertion sort:
\* for i := 1; i < n; i++ { for j := i; j > 0 && less(j, j-1); j-- { swap(j, j-1) } }
Swap(data, i, j) == [data EXCEPT ![i] = data[j], ![j] = data[i]]

RECURSIVE InsertionInner(_, _)
InsertionInner(data, j) ==
  IF j > 1 /\ Less(data[j], data[j - 1])
    THEN InsertionInner(Swap(data, j, j - 1), j - 1)
    ELSE data

RECURSIVE InsertionSort(_, _)
InsertionSort(data, i) ==
  IF i > Len(data) THEN data ELSE InsertionSort(InsertionInner(data, i), i + 1)

SortSlice(data) == InsertionSort(data, 2)

\* the names a remote directory can hold and the listings ReadDir can return:
\* up to MaxList entries with distinct names, in the server's order
ListNames ==
  {<<"a">>, <<"B">>, <<"b", ".", "c">>, <<".", "h">>, <<"C", ".", "G", "I", "F">>}
MaxList == 3
ListInfos == [Name : ListNames, IsDir : BOOLEAN]
Listings ==
  {l \in UNION {[1..n -> ListInfos] : n \in 0..MaxList} :
     \A i, j \in DOMAIN l : l[i].Name = l[j].Name => i = j}

ListDirPaths == {<<>>, <<Slash, "d", Slash>>}
ListFilters == {<<>>, <<"B">>, FilterCode, <<"I", "m", "a", "g", "e", "s">>}

\* CreateSession, "Get home directory": homeDir, err := sftpClient.Getwd();
\* if err != nil { homeDir = "/" }. homeExists / usersExists: whether
\* /home/<user> and /Users/<user> exist on the remote, which the code never asks
HomeChoices == {<<>>, <<Slash, "w">>}

CreateSessionHomeDir(getwdErr, wd, homeExists, usersExists) ==
  /\ ~hcall
  /\ getwdErr => wd = <<>>
  /\ homeDir' = IF getwdErr THEN <<Slash>> ELSE wd
  /\ hcall' = TRUE
  /\ UNCHANGED <<lcall, lres, regVars, zipVars, fsVars, pathVars, rateVars>>

\* ListFiles: GetSession, the default and path.Clean of dirPath, ReadDir, the
\* filter loop, sort.Slice and the return
ListFiles(dirPath, showHidden, filter, found, readErr, listing) ==
  /\ hcall
  /\ lres = NoListRes
  /\ (readErr \/ ~found) => listing = <<>>
  /\ LET dir == Clean(IF dirPath = <<>> THEN homeDir ELSE dirPath)
     IN  /\ lcall' = [dirPath |-> dirPath, showHidden |-> showHidden, filter |-> filter,
                      found |-> found, readErr |-> readErr, listing |-> listing,
                      readDirPath |-> IF found THEN dir ELSE <<>>]
         /\ lres' = IF ~found THEN [err |-> "ErrSessionNotFound", files |-> <<>>]
                    ELSE IF readErr THEN [err |-> "failed to read directory", files |-> <<>>]
                    ELSE [err |-> "nil",
                          files |-> SortSlice(ListLoop(listing, dir, showHidden, filter))]
  /\ UNCHANGED <<homeDir, hcall, regVars, zipVars, fsVars, pathVars, rateVars>>

\* the handler has rendered the listing (or the error)
ListFilesDone ==
  /\ lres # NoListRes
  /\ lcall' = NoListCall
  /\ lres' = NoListRes
  /\ UNCHANGED <<homeDir, hcall, regVars, zipVars, fsVars, pathVars, rateVars>>

ListNext ==
  \/ \E getwdErr \in BOOLEAN, wd \in HomeChoices, homeExists \in BOOLEAN,
        usersExists \in BOOLEAN :
       CreateSessionHomeDir(getwdErr, wd, homeExists, usersExists)
  \/ \E dirPath \in ListDirPaths, showHidden \in BOOLEAN, filter \in ListFilters :
       \/ ListFiles(dirPath, showHidden, filter, FALSE, FALSE, <<>>)
       \/ ListFiles(dirPath, showHidden, filter, TRUE, TRUE, <<>>)
       \/ \E listing \in Listings :
            ListFiles(dirPath, showHidden, filter, TRUE, FALSE, listing)
  \/ ListFilesDone

\* the home directory and the listings on their own
ListInit == Init /\ config.MaxSessions = MaxSessionsCfg

ListSpec == ListInit /\ [][ListNext]_vars

\* ---- utils.CleanPath -----------------------------------------------------------

\* filepath.Join(a, b): the elements from the first non-empty one on, joined by
\* the separator and cleaned; "" when both are empty
FilepathJoin(a, b) ==
  IF a # <<>> THEN Clean(a \o <<Slash>> \o b)
  ELSE IF b # <<>> THEN Clean(b)
  ELSE <<>>

\* if relativePath == "" { return basePath }; cleaned := filepath.Clean(
\* filepath.Join(basePath, relativePath)); basePath again unless the cleaned
\* path has filepath.Clean(basePath) as a string prefix
CleanPath(basePath, relativePath) ==
  IF relativePath = <<>> THEN basePath
  ELSE LET cleaned == Clean(FilepathJoin(basePath, relativePath)) IN
    IF ~HasPrefix(cleaned, Clean(basePath)) THEN basePath ELSE cleaned

\* the base paths and the relative paths a caller may pass: up to MaxSegs
\* elements, each "..", ".", "a" or "ba"
CleanPathBases ==
  { <<Slash>>, <<Slash, "b">>, <<Slash, "b", Slash>>, <<Slash, "b", Slash, "a">> }
PathSegs == { <<Dot, Dot>>, <<Dot>>, <<"a">>, <<"b", "a">> }
MaxSegs == 3
CleanPathRels ==
  {<<>>} \cup {JoinSlash(q) : q \in UNION {[1..n -> PathSegs] : n \in 1..MaxSegs}}

\* one call of utils.CleanPath
CleanPathCall(basePath, relativePath) ==
  /\ cpcall' = [basePath |-> basePath, relativePath |-> relativePath,
                result |-> CleanPath(basePath, relativePath), called |-> TRUE]
  /\ UNCHANGED <<regVars, zipVars, fsVars, listVars, rateVars>>

PathNext ==
  \E basePath \in CleanPathBases, relativePath \in CleanPathRels :
    CleanPathCall(basePath, relativePath)

\* CleanPath calls on their own
PathInit == Init /\ config.MaxSessions = MaxSessionsCfg

PathSpec == PathInit /\ [][PathNext]_vars

\* ---- Middleware.RateLimit ------------------------------------------------------

\* windowSize (time.Minute) in clock steps, maxRequests (100) scaled down, and
\* the number of requests that enter the middleware
RateWindow == 2
RateMax == 2
MaxRateRequests == 5

\* the "clean old entries" loop: the recorded times with now.Sub(reqTime) < windowSize
ValidRequests(requests, t) == SelectSeq(requests, LAMBDA reqTime : t - reqTime < RateWindow)

\* clientIP := getClientIP(r); now := time.Now(), both before mutex.Lock()
RateLimitEnter(r, ip) ==
  /\ rpc[r] = "idle"
  /\ rcount < MaxRateRequests
  /\ rreq' = [rreq EXCEPT ![r] = [clientIP |-> ip, now |-> rtime]]
  /\ rpc' = [rpc EXCEPT ![r] = "lock"]
  /\ rcount' = rcount + 1
  /\ UNCHANGED <<regVars, zipVars, fsVars, listVars, pathVars, rtime, rclients, rfwd>>

\* mutex.Lock(); the old entries of the address are dropped; with maxRequests
\* or more left the request is answered 429 and the handler returns, otherwise
\* now is appended; mutex.Unlock()
RateLimitLock(r) ==
  /\ rpc[r] = "lock"
  /\ LET ip == rreq[r].clientIP
         valid == ValidRequests(rclients[ip], rreq[r].now) IN
       IF Len(valid) >= RateMax
         THEN /\ rclients' = [rclients EXCEPT ![ip] = valid]
              /\ rpc' = [rpc EXCEPT ![r] = "idle"]
              /\ rreq' = [rreq EXCEPT ![r] = NoRequest]
         ELSE /\ rclients' = [rclients EXCEPT ![ip] = Append(valid, rreq[r].now)]
              /\ rpc' = [rpc EXCEPT ![r] = "serve"]
              /\ rreq' = rreq
  /\ UNCHANGED <<regVars, zipVars, fsVars, listVars, pathVars, rtime, rfwd, rcount>>

\* next.ServeHTTP(w, r), after the mutex was released, at any later time: the
\* request reaches the wrapped handler and is counted at its own time stamp
RateLimitServe(r) ==
  /\ rpc[r] = "serve"
  /\ rfwd' = [rfwd EXCEPT ![rreq[r].clientIP][rreq[r].now] = @ + 1]
  /\ rpc' = [rpc EXCEPT ![r] = "idle"]
  /\ rreq' = [rreq EXCEPT ![r] = NoRequest]
  /\ UNCHANGED <<regVars, zipVars, fsVars, listVars, pathVars, rtime, rclients, rcount>>

\* the wall clock advances
RateTick ==
  /\ rtime < MaxRateTime
  /\ rtime' = rtime + 1
  /\ UNCHANGED <<regVars, zipVars, fsVars, listVars, pathVars, rclients, rpc, rreq, rfwd, rcount>>

RateNext ==
  \/ \E r \in Requesters, ip \in ClientIPs : RateLimitEnter(r, ip)
  \/ \E r \in Requesters : RateLimitLock(r)
  \/ \E r \in Requesters : RateLimitServe(r)
  \/ RateTick

\* the middleware on its own
RateInit == Init /\ config.MaxSessions = MaxSessionsCfg

RateSpec == RateInit /\ [][RateNext]_vars

\* ---- properties ---------------------------------------------------------------

\* idle time of a session object at the current clock value
Idle(o) == now - heap[o].LastAccess

\* the SFTP and the SSH client of connection c are both open
ConnOpen(c) == conn[c].sftpOpened /\ conn[c].sftpCloses = 0 /\ conn[c].sshCloses = 0

\* the SFTP and the SSH client of connection c have both been closed exactly once
ConnClosedOnce(c) == conn[c].sftpCloses = 1 /\ conn[c].sshCloses = 1

\* C1: the map never holds more records than config.Session.MaxSessions,
\* under any interleaving of CreateSession calls with the other operations.
C1_CapacityNeverExceeded == Cardinality(DOMAIN sessions) <= config.MaxSessions

\* C2: while a handler that obtained a session from GetSession is still issuing
\* operations on it, the session's SFTP client is neither closed nor set to nil,
\* and no handler has panicked on a nil client.
C2_HandleLiveWhileInUse ==
  \A p \in Threads :
    /\ pc[p] = "h_op" =>
         /\ heap[cur[p]].SFTPClient # Nil
         /\ conn[heap[cur[p]].SFTPClient].sftpCloses = 0
    /\ pc[p] = "h_in" => conn[hnd[p]].sftpCloses = 0
    /\ ret[p] # Res("Handler", "panic")

\* C3: whatever DeleteSession calls and sweeper runs target a session, each of
\* its clients is closed at most once.
C3_ClosedAtMostOnce ==
  \A c \in DOMAIN conn : conn[c].sftpCloses <= 1 /\ conn[c].sshCloses <= 1

\* a session the sweeper evicted, closed once, and a later lookup of a thread
\* that found no record
C3_Witness ==
  /\ swRet >= 1
  /\ \E o \in DOMAIN heap : ~Registered(o) /\ ConnClosedOnce(o)
  /\ \E p \in Threads : ret[p] = Res("DeleteSession", "ErrSessionNotFound")

\* C4: at the moment GetSession returns a session, that session is registered,
\* its IsActive flag is true and its clients have not been closed.
C4_ReturnedSessionIsLive ==
  [][\A p \in Threads :
       GetSessionUpdate(p) =>
         /\ ret'[p] = Res("GetSession", "ok")
         /\ \E id \in DOMAIN sessions' : sessions'[id] = cur'[p]
         /\ heap'[cur'[p]].IsActive
         /\ heap'[cur'[p]].SFTPClient # Nil /\ heap'[cur'[p]].SSHClient # Nil
         /\ conn'[heap'[cur'[p]].SFTPClient].sftpCloses = 0
         /\ conn'[heap'[cur'[p]].SSHClient].sshCloses = 0]_vars

\* GetSession has handed out a session while another session was being closed
C4_Witness ==
  \E p \in Threads, q \in Procs :
    /\ pc[p] = "h_op" /\ ret[p] = Res("GetSession", "ok")
    /\ pc[q] = "close2" /\ cur[q] # cur[p]

C6_FreshSessionIsReturnedAndTouched ==
  [][\A p \in Threads :
       /\ (GetSessionExpired(p) /\ Idle(cur[p]) < config.Timeout)
            => pc'[p] = "gs_update" /\ cur'[p] = cur[p]
       /\ GetSessionUpdate(p) =>
            /\ ret'[p] = Res("GetSession", "ok")
            /\ pc'[p] = "h_op" /\ cur'[p] = cur[p]
            /\ sessions'[heap[cur[p]].ID] = cur[p]
            /\ heap'[cur[p]].LastAccess = tval[p]
            /\ heap'[cur[p]].LastAccess >= heap[cur[p]].LastAccess]_vars

\* C7: DeleteSession of a registered id removes that record, after closing its
\* connection exactly once, and returns nil; DeleteSession of an id that is not
\* registered (any later call for the same id) returns NotFound, closes nothing
\* and leaves the registry as it is.
C7_DeleteIdempotent ==
  [][\A p \in Threads :
       /\ \A id \in IDs :
            DeleteSessionLookup(p, id) =>
              IF id \in DOMAIN sessions
                THEN pc'[p] = "close1" /\ cur'[p] = sessions[id] /\ mutexW' = p
                ELSE /\ ret'[p] = Res("DeleteSession", "ErrSessionNotFound")
                     /\ pc'[p] = "idle"
                     /\ UNCHANGED <<sessions, heap, conn>>
       /\ DeleteSessionRemove(p) =>
            /\ ret'[p] = Res("DeleteSession", "nil")
            /\ sessions[arg[p]] = cur[p]
            /\ sessions' = [k \in DOMAIN sessions \ {arg[p]} |-> sessions[k]]
            /\ ConnClosedOnce(cur[p])
            /\ UNCHANGED conn]_vars

\* one DeleteSession has removed and closed a session, and a later one for an id
\* that is not registered has answered NotFound
C7_Witness ==
  /\ swRet = 0
  /\ sessions = <<>>
  /\ \E o \in DOMAIN heap : ConnClosedOnce(o)
  /\ \E p, q \in Threads :
       /\ ret[p] = Res("DeleteSession", "nil")
       /\ ret[q] = Res("DeleteSession", "ErrSessionNotFound")

\* C8: a sweeper run removes a record only if it collected it, and the record's
\* LastAccess is still stale when it is removed; a session whose LastAccess is
\* not stale when the run examines it is not collected.
C8_SweeperEvictsOnlyStale ==
  [][/\ \A id \in IDs :
          (CleanupScan(id) /\ ~(Idle(sessions[id]) > config.Timeout))
            => id \notin Range(expiredSessions')
     /\ CleanupRemove =>
          /\ arg[Sweeper] = expiredSessions[swIdx]
          /\ sessions[arg[Sweeper]] = cur[Sweeper]
          /\ Idle(cur[Sweeper]) > config.Timeout
          /\ sessions' = [k \in DOMAIN sessions \ {arg[Sweeper]} |-> sessions[k]]]_vars

\* the sweeper is about to remove a stale session while a session that a
\* GetSession refreshed before the scan stays registered
C8_Witness ==
  /\ pc[Sweeper] = "sw_delete"
  /\ \E id \in DOMAIN sessions :
       /\ id \notin Range(expiredSessions)
       /\ heap[sessions[id]].LastAccess > 0
       /\ \E p \in Threads : pc[p] \in {"h_op", "h_in"} /\ cur[p] = sessions[id]

\* C9: two operations on the same session never run on its SFTP client at the
\* same time.
C9_SessionAccessSerialized ==
  \A p, q \in Threads :
    (p # q /\ pc[p] = "h_in" /\ pc[q] = "h_in") => hnd[p] # hnd[q]

\* C10: once GetSession has answered Expired for a session, the next sweeper
\* run removes its record: when a sweeper run ends, no session that GetSession
\* has answered Expired for is left in the registry.
C10_ReportedExpiredIsSwept ==
  [][CleanupReturn => \A o \in reportedExpired : ~Registered(o)']_vars

\* C11 (as stated): a CreateSession call that finds MaxSessions records in the
\* registry fails with the capacity error, dials nothing and leaves the registry
\* as it is.
C11_AtCapacityRejected ==
  [][\A p \in Threads, req \in Requests :
       (CreateSessionCheck(p, req)
          /\ Cardinality(DOMAIN sessions) >= config.MaxSessions)
         => /\ ret'[p] = Res("CreateSession", "ErrMaxSessions")
            /\ pc'[p] = "idle"
            /\ UNCHANGED <<sessions, heap, conn>>]_vars

\* C11 (amended): a CreateSession call that finds MaxSessions records in the
\* registry dials nothing and leaves the registry as it is; it fails with the
\* capacity error when its request passes validation, and with the validation
\* error otherwise.
C11_ValidAtCapacityRejected ==
  [][\A p \in Threads, req \in Requests :
       (CreateSessionCheck(p, req)
          /\ Cardinality(DOMAIN sessions) >= config.MaxSessions)
         => /\ ret'[p] = Res("CreateSession",
                             IF Validate(req) = "nil" THEN "ErrMaxSessions"
                                                      ELSE Validate(req))
            /\ pc'[p] = "idle" /\ cur'[p] = Nil
            /\ UNCHANGED <<sessions, heap, conn, mutexW, mutexR>>]_vars

\* with the registry full, one call was turned away for capacity and another
\* for its request
C11_Witness ==
  /\ Cardinality(DOMAIN sessions) = config.MaxSessions
  /\ \E p, q \in Threads :
       /\ pc[p] = "idle" /\ ret[p] = Res("CreateSession", "ErrMaxSessions")
       /\ pc[q] = "idle" /\ ret[q] = Res("CreateSession", "ErrInvalidHost")

\* C12: CreateSession never stores a session under an id that is already in the
\* registry, so no existing record is overwritten.
C12_NeverOverwrites ==
  [][\A p \in Threads :
       CreateSessionStore(p) =>
         /\ heap[cur[p]].ID \notin DOMAIN sessions
         /\ \A id \in DOMAIN sessions : sessions'[id] = sessions[id]]_vars

\* C13: when ssh.Dial or sftp.NewClient fails, CreateSession returns an error,
\* stores no record and leaves the registry and every session as they were; the
\* ssh client of a failed SFTP setup is closed.
C13_FactoryFailureLeavesRegistry ==
  [][\A p \in Threads :
       /\ CreateSessionDialFail(p) =>
            /\ ret'[p] = Res("CreateSession", "ErrDial")
            /\ pc'[p] = "idle" /\ cur'[p] = Nil
            /\ UNCHANGED <<sessions, heap, conn>>
       /\ CreateSessionSFTPFail(p) =>
            /\ ret'[p] = Res("CreateSession", "ErrSFTP")
            /\ pc'[p] = "idle" /\ cur'[p] = Nil
            /\ UNCHANGED <<sessions, heap>>
            /\ \A c \in DOMAIN conn : conn'[c] = conn[c]
            /\ conn'[Len(conn')].sshCloses = 1]_vars

\* both failures have happened next to a registered session that is still open
C13_Witness ==
  /\ \E p, q \in Threads :
       /\ ret[p] = Res("CreateSession", "ErrDial")
       /\ ret[q] = Res("CreateSession", "ErrSFTP")
  /\ \E id \in DOMAIN sessions : ConnOpen(sessions[id])
  /\ \E c \in DOMAIN conn : ~conn[c].sftpOpened /\ conn[c].sshCloses = 1

\* C14: DeleteSession and the sweeper remove a record only after both clients of
\* its session have been closed and cleared.
C14_ClosedBeforeRemoved ==
  [][/\ \A p \in Threads :
          DeleteSessionRemove(p) =>
            /\ sessions[arg[p]] = cur[p]
            /\ ConnClosedOnce(cur[p])
            /\ heap[cur[p]].SFTPClient = Nil /\ heap[cur[p]].SSHClient = Nil
     /\ CleanupRemove =>
            /\ sessions[arg[Sweeper]] = cur[Sweeper]
            /\ ConnClosedOnce(cur[Sweeper])
            /\ heap[cur[Sweeper]].SFTPClient = Nil
            /\ heap[cur[Sweeper]].SSHClient = Nil]_vars

\* a DeleteSession is about to remove a record whose connection it has closed,
\* after a sweeper run that evicted another
C14_Witness ==
  /\ swRet >= 1
  /\ \E p \in Threads :
       /\ pc[p] = "ds_delete" /\ Registered(cur[p]) /\ ConnClosedOnce(cur[p])

\* C15: when session.Close() has returned an error, DeleteSession still removes
\* the record and returns nil, and the sweeper still removes the record and goes
\* on with the rest of its list; the count it returns is the length of the list.
C15_CloseErrorStillRemoves ==
  [][/\ \A p \in Threads :
          (DeleteSessionRemove(p) /\ closeErr[p]) =>
            /\ arg[p] \in DOMAIN sessions /\ arg[p] \notin DOMAIN sessions'
            /\ ret'[p] = Res("DeleteSession", "nil")
            /\ mutexW' = NoProc
     /\ (CleanupRemove /\ closeErr[Sweeper]) =>
            /\ arg[Sweeper] \in DOMAIN sessions /\ arg[Sweeper] \notin DOMAIN sessions'
            /\ pc'[Sweeper] = "sw_scan" /\ swIdx' = swIdx + 1
            /\ UNCHANGED <<expiredSessions, swTodo>>
     /\ CleanupReturn =>
            /\ swRet' = Len(expiredSessions)
            /\ Range(expiredSessions) \cap DOMAIN sessions' = {}]_vars

\* the close of the first of two expired sessions has failed in the sweeper,
\* after a DeleteSession returned
C15_Witness ==
  /\ pc[Sweeper] = "sw_delete" /\ closeErr[Sweeper]
  /\ swIdx = 1 /\ Len(expiredSessions) = 2

\* C16: a sweeper run collects exactly the sessions whose idle time exceeds the
\* timeout when it scans them; when it ends, those have been removed and closed,
\* every other record and every other session and connection that existed when
\* it started is as it was, and the count it returns is the number of records
\* it removed.
C16_SweepFrame ==
  [][/\ \A id \in IDs :
          CleanupScan(id) =>
            /\ id \in Range(expiredSessions') <=>
                 now - heap[sessions[id]].LastAccess > config.Timeout
            /\ sessions = swStart.sessions
     /\ CleanupReturn =>
          LET removed == Range(expiredSessions)
              gone == {swStart.sessions[id] : id \in removed} IN
            /\ removed \subseteq DOMAIN swStart.sessions
            /\ sessions' = [id \in DOMAIN swStart.sessions \ removed |->
                               swStart.sessions[id]]
            /\ \A o \in gone :
                 /\ swStart.conn[o].sftpCloses = 0 /\ swStart.conn[o].sshCloses = 0
                 /\ ConnClosedOnce(o)' /\ ~heap'[o].IsActive
                 /\ swStart.heap[o].LastAccess = heap'[o].LastAccess
            /\ \A o \in DOMAIN swStart.heap \ gone :
                 heap'[o] = swStart.heap[o] /\ conn'[o] = swStart.conn[o]
            /\ swRet' = Cardinality(DOMAIN swStart.sessions \ DOMAIN sessions')]_vars

\* a sweeper run is about to end after evicting one session and leaving another
C16_Witness ==
  /\ pc[Sweeper] = "sw_scan" /\ swTodo = {} /\ swIdx > Len(expiredSessions)
  /\ Len(expiredSessions) = 1
  /\ Cardinality(DOMAIN swStart.sessions) = 2
  /\ \E id \in DOMAIN sessions : ConnOpen(sessions[id])

\* C17: DownloadMultiple closes the ZIP writer exactly once, and only when no
\* requested path is left and no directory walk is in progress; when no
\* requested path was handled without an error (the list is empty or every path
\* failed) and the sink works, the result is a finalized archive with no entries.
C17_FinalizedOnceAfterAllPaths ==
  /\ zcloses <= 1
  /\ zcloses = 1 => (zpc = "done" /\ zpaths = <<>> /\ zstack = <<>>)
  /\ (zpc = "done" /\ zret = "nil") => zcloses = 1
  /\ (zpc = "done" /\ zret = "nil" /\ zok = 0 /\ ~zsink) =>
       (ztrailer /\ zentries = <<>>)

\* C18: with a working sink, every file that is read to its end and every
\* directory that is listed gets its entry, a file whose open or copy fails and
\* a directory whose listing fails get none, and the walk goes on with the next
\* sibling or requested path whatever the outcome.
C18_EntriesForReadableOnly ==
  [][\A out \in ZipOutcomes :
       ((DownloadMultipleNext(out) \/ addDirectoryToZipLoop(out)) /\ ~zsink') =>
         /\ out = "ok" =>
              /\ Len(zentries') = Len(zentries) + 1
              /\ SubSeq(zentries', 1, Len(zentries)) = zentries
         /\ out \in {"stat", "list", "open", "copy"} => zentries' = zentries
         /\ zpc' = "loop"]_vars

\* C19: no entry name begins with a separator, and the entry of a file does not
\* end with one: names are relative to the base name of the requested path.
C19_EntryNamesRelative ==
  \A i \in DOMAIN zentries :
    LET name == zentries[i].name IN
      /\ name # <<>>
      /\ name[1] # Slash
      /\ ~zentries[i].isDir => name[Len(name)] # Slash

\* C20: once a write to the sink has failed, DownloadMultiple takes up no
\* further requested path and no further child of a directory: no Stat, ReadDir,
\* Open or Create is issued any more.
C20_StopsAfterSinkFailure ==
  [][zsink => ~\E out \in ZipOutcomes :
                 DownloadMultipleNext(out) \/ addDirectoryToZipLoop(out)]_vars

\* C21: DownloadMultiple returns an error whenever a write to the sink failed
\* (while an entry was written or while the archive was finalized), and returns
\* nil when only remote per-path failures occurred.
C21_SinkFailureReported ==
  zpc = "done" =>
    /\ (zret = "nil" /\ zcloses = 1) => ~zsink
    /\ (~zsink /\ zcloses = 1) => zret = "nil"

\* C30: the sweeper does not hold the registry lock while a connection close
\* is in progress: whenever it is inside session.Close() the lock is released,
\* so no GetSession waits for a close.
C30_SweeperClosesOutsideLock ==
  pc[Sweeper] \in {"close1", "close_nil", "close2"} => mutexW # Sweeper

\* C22: PreviewFile never reads more than maxSize bytes from the remote file
\* and never returns content longer than maxSize, whatever Stat reported and
\* even if the file changes between the Stat and the read.
C22_PreviewNeverExceedsMaxSize ==
  (fpc = "returned" /\ fcall.op = "PreviewFile") =>
    /\ Len(fres.content) <= fcall.maxSize
    /\ \A i \in DOMAIN flog : flog[i].op = "Read" => flog[i].n <= fcall.maxSize

\* C23: PreviewFile on a file whose stat size exceeds maxSize returns the
\* too-large error without opening or reading it; on a directory it returns
\* the not-a-file error without opening it; on a file of at most maxSize bytes
\* it goes on to open the file and, the open and the read succeeding, returns
\* the file's full content.
C23_PreviewDecidedByStat ==
  [][/\ (PreviewFileStat("ok") /\ ~StatFails(fcall.path, "ok")) =>
          LET node == fs[fcall.path]
              onlyStat == flog' = <<Op("Stat", fcall.path, 0)>>
          IN  /\ node.kind = "dir" =>
                   /\ fpc' = "returned"
                   /\ fres'.err = "cannot preview directory"
                   /\ onlyStat
              /\ (node.kind = "file" /\ Len(node.data) > fcall.maxSize) =>
                   /\ fpc' = "returned"
                   /\ fres'.err = "file too large for preview"
                   /\ onlyStat
              /\ (node.kind = "file" /\ Len(node.data) <= fcall.maxSize) =>
                   fpc' = "pv_open"
     /\ \A n \in 0..MaxFileSize : PreviewFileRead("ok", n) =>
          /\ fpc' = "returned"
          /\ fres'.err = "nil"
          /\ fres'.content = fs[fcall.path].data]_vars

\* a preview of a non-empty file of exactly maxSize bytes has returned its content
C23_Witness ==
  /\ fpc = "returned"
  /\ fcall.op = "PreviewFile"
  /\ fres.err = "nil"
  /\ fres.content # <<>>
  /\ Len(fres.content) = fcall.maxSize
  /\ fres.content = fs[fcall.path].data

\* C24: UploadFile with overwrite = false on a destination path that exists
\* returns the already-exists error and leaves the remote tree as it is: the
\* call that finds the path present when it stats it is refused there, and no
\* such call creates or truncates a file that exists when it reaches Create.
C24_NoOverwriteKeepsExisting ==
  [][/\ \A out \in {"ok", "stat"} :
          (UploadFileStat(out) /\ fs[fcall.path].kind # "none" /\ ~fbroken) =>
            /\ fpc' = "returned"
            /\ fres'.err = "file already exists"
            /\ fs' = fs
     /\ \A out \in {"ok", "create"} :
          (UploadFileCreate(out) /\ ~fcall.overwrite /\ fs[fcall.path].kind # "none") =>
            fs' = fs]_vars

\* C25: DeleteFile stats the path and then issues exactly one remove, a file
\* remove for a file and an empty-directory remove for a directory; on a
\* non-empty directory the call fails and nothing is removed; no path other
\* than the named one is ever removed.
C25_DeleteIssuesOneMatchingRemove ==
  [][\A out \in {"ok", "remove"} : DeleteFileRemove(out) =>
       LET path == fcall.path
           isDir == fs[path].kind = "dir"
       IN  /\ flog' = <<Op("Stat", path, 0),
                        Op(IF isDir THEN "RemoveDirectory" ELSE "Remove", path, 0)>>
           /\ (isDir /\ Children(fs, path) # {}) =>
                (fres'.err # "nil" /\ fs' = fs)
           /\ \A q \in FPaths \ {path} : fs'[q] = fs[q]
           /\ fres'.err = "nil" <=> fs'[path] = NoNode]_vars

\* DeleteFile on the non-empty directory /d has failed on a working connection
C25_Witness ==
  /\ fpc = "returned"
  /\ fcall.op = "DeleteFile"
  /\ fcall.isDir
  /\ Children(fs, fcall.path) # {}
  /\ ~fbroken
  /\ fres.err = "remove failed"
  /\ Len(flog) = 2

\* the elements of input at the positions whose DeleteFile result satisfies ok
RECURSIVE PathsWhere(_, _, _)
PathsWhere(input, errs, ok) ==
  IF input = <<>> \/ errs = <<>> THEN <<>>
  ELSE (IF (Head(errs) = "nil") = ok THEN <<Head(input)>> ELSE <<>>)
         \o PathsWhere(Tail(input), Tail(errs), ok)

\* C26 as stated: every path is attempted, the deleted and the failed list are
\* disjoint, together they hold each input path exactly once in input order,
\* and a path is in deleted exactly when its delete succeeded.
C26_DeletedAndFailedDisjoint ==
  [][DeleteMultipleFilesReturn =>
       /\ Len(fbatch.errs) = Len(fbatch.input)
       /\ fres'.deleted = PathsWhere(fbatch.input, fbatch.errs, TRUE)
       /\ fres'.failed = PathsWhere(fbatch.input, fbatch.errs, FALSE)
       /\ Range(fres'.deleted) \cap Range(fres'.failed) = {}]_vars

\* C26, amended: every element of the input is attempted in order whatever
\* failed before; deleted holds, in input order, the elements whose own delete
\* succeeded and failed the others, so every occurrence is in exactly one list;
\* the two lists are disjoint when no path occurs twice in the input.
C26_DeletedAndFailedPartition ==
  [][DeleteMultipleFilesReturn =>
       /\ Len(fbatch.errs) = Len(fbatch.input)
       /\ fres'.deleted = PathsWhere(fbatch.input, fbatch.errs, TRUE)
       /\ fres'.failed = PathsWhere(fbatch.input, fbatch.errs, FALSE)
       /\ Len(fres'.deleted) + Len(fres'.failed) = Len(fbatch.input)
       /\ (\A i, j \in DOMAIN fbatch.input :
             fbatch.input[i] = fbatch.input[j] => i = j) =>
            Range(fres'.deleted) \cap Range(fres'.failed) = {}]_vars

\* a batch whose first delete failed and whose second succeeded has returned
C26_Witness ==
  /\ fpc = "returned"
  /\ ~fbatch.active
  /\ Len(fbatch.input) = 2
  /\ fbatch.errs[1] # "nil"
  /\ fbatch.errs[2] = "nil"
  /\ fres.deleted = <<fbatch.input[2]>>
  /\ fres.failed = <<fbatch.input[1]>>

\* C27: the list ListFiles returns has every directory before every
\* non-directory, and within the directories and within the non-directories
\* the names are in non-decreasing case-insensitive order.
C27_ListingIsOrdered ==
  LET files == lres.files IN
  \A i, j \in DOMAIN files : i < j =>
    /\ files[j].IsDir => files[i].IsDir
    /\ files[i].IsDir = files[j].IsDir =>
         ~StrLess(ToLower(files[j].Name), ToLower(files[i].Name))

\* a listing of three entries, a directory that the remote listed last among
\* them, has been returned reordered, with "a" before "B"
C27_Witness ==
  /\ lres.err = "nil"
  /\ Len(lres.files) = 3
  /\ lcall.listing[3].IsDir
  /\ lres.files[1].IsDir
  /\ lres.files[2].Name = <<"a">>
  /\ lres.files[3].Name = <<"B">>
  /\ lcall.listing[1].Name = <<"B">>

\* C28: when ReadDir succeeds ListFiles returns exactly the listed entries that
\* are not dot-prefixed (unless showHidden) and match the filter (when it is
\* non-empty), each exactly once; when ReadDir fails it returns an error and
\* no entries.
C28_ListingIsFiltered ==
  LET passes(info) ==
        /\ lcall.showHidden \/ info.Name = <<>> \/ info.Name[1] # "."
        /\ lcall.filter = <<>> \/ matchesFilter(info.Name, lcall.filter)
      kept == {i \in DOMAIN lcall.listing : passes(lcall.listing[i])}
  IN  /\ lres.err = "nil" =>
           /\ Len(lres.files) = Cardinality(kept)
           /\ \A i \in kept : \E k \in DOMAIN lres.files :
                /\ lres.files[k].Name = lcall.listing[i].Name
                /\ lres.files[k].IsDir = lcall.listing[i].IsDir
                /\ \A m \in DOMAIN lres.files :
                     lres.files[m].Name = lcall.listing[i].Name => m = k
      /\ (lcall.found /\ lcall.readErr) =>
           (lres.err = "failed to read directory" /\ lres.files = <<>>)
      /\ (lcall.found /\ ~lcall.readErr /\ lres # NoListRes) => lres.err = "nil"

\* of three listed entries, one hidden and one not matching the filter "B",
\* exactly the third has been returned
C28_Witness ==
  /\ lres.err = "nil"
  /\ ~lcall.showHidden
  /\ lcall.filter = <<"B">>
  /\ Len(lcall.listing) = 3
  /\ \E i \in DOMAIN lcall.listing : lcall.listing[i].Name = <<".", "h">>
  /\ \E i \in DOMAIN lcall.listing : lcall.listing[i].Name = <<"a">>
  /\ Len(lres.files) = 1
  /\ lres.files[1].Name = <<"b", ".", "c">>

\* the conventional home directories of user u
HomePath == <<Slash, "h", "o", "m", "e", Slash, "u">>
UsersPath == <<Slash, "U", "s", "e", "r", "s", Slash, "u">>

\* C29: CreateSession takes as HomeDir the working directory the connection
\* reports when there is one; otherwise /home/<user> if it exists, otherwise
\* /Users/<user> if it exists; otherwise "/".
C29_HomeDirResolutionOrder ==
  [][\A getwdErr, homeExists, usersExists \in BOOLEAN, wd \in HomeChoices :
       CreateSessionHomeDir(getwdErr, wd, homeExists, usersExists) =>
         homeDir' = IF ~getwdErr /\ wd # <<>> THEN wd
                    ELSE IF homeExists THEN HomePath
                    ELSE IF usersExists THEN UsersPath
                    ELSE <<Slash>>]_vars

\* both clients of connection c that were opened have been closed
ConnClosed(c) ==
  conn[c].sshCloses > 0 /\ (conn[c].sftpOpened => conn[c].sftpCloses > 0)

\* C31: every connection CreateSession has opened is, once CreateSession has
\* returned, owned by exactly one registered session or closed, whatever
\* registry operations follow.
C31_OpenHandleIsOwned ==
  \A c \in DOMAIN conn :
    (~ConnClosed(c) /\ ~\E p \in Threads : pc[p] = "cs_store" /\ cur[p] = c) =>
      Cardinality({id \in DOMAIN sessions : sessions[id] = c}) = 1

\* C32: accesses to a session's lastAccess are free of data races: the write
\* of one GetSession call (inside UpdateAccess, the time read and not yet
\* stored) never overlaps the write of another GetSession call on the same
\* session, nor the expiry check of one that has loaded LastAccess and not yet
\* compared it.
C32_LastAccessWritesExclusive ==
  \A p, q \in Threads :
    (p # q /\ pc[p] = "gs_store" /\ pc[q] \in {"gs_since", "gs_store"})
      => cur[p] # cur[q]

\* C33: a session that successful GetSession calls keep refreshing less than
\* the timeout apart is never evicted by the sweeper and leaves the registry
\* only through DeleteSession: whenever the record of a session leaves the map,
\* either a DeleteSession on its id removes it, or more than the timeout has
\* passed since its last successful GetSession.
C33_KeptAliveLeavesOnlyByDelete ==
  [][\A id \in DOMAIN sessions :
       (id \notin DOMAIN sessions' \/ sessions'[id] # sessions[id]) =>
         \/ \E p \in Threads : pc[p] = "ds_delete" /\ arg[p] = id
         \/ Idle(sessions[id]) > config.Timeout]_vars

\* C34: expired records the sweeper has not removed yet still count toward the
\* session limit.  A CreateSession call that finds MaxSessions records, every
\* one of them expired, is rejected without dialling and without touching the
\* map, and a GetSession call that answers Expired removes nothing from the map.
C34_ExpiredRecordsHoldTheirSlot ==
  [][/\ \A p \in Threads, req \in Requests :
          (/\ CreateSessionCheck(p, req)
           /\ Cardinality(DOMAIN sessions) >= config.MaxSessions
           /\ NotExpired = {})
            => /\ pc'[p] = "idle"
               /\ ret'[p].op = "CreateSession"
               /\ ret'[p].val \in {"ErrMaxSessions", Validate(req)} \ {"nil"}
               /\ UNCHANGED <<sessions, heap, conn>>
     /\ \A p \in Threads, id \in IDs :
          (/\ GetSessionExpired(p) /\ arg[p] = id
           /\ ret'[p] = Res("GetSession", "ErrSessionExpired"))
            => /\ id \in DOMAIN sessions /\ sessions[id] = cur[p]
               /\ UNCHANGED <<sessions, heap, conn>>]_vars

\* the registry is full of expired records; one call has been told so by
\* GetSession and a valid CreateSession has been turned away for capacity
C34_Witness ==
  /\ Cardinality(DOMAIN sessions) = config.MaxSessions
  /\ NotExpired = {}
  /\ reportedExpired = Range(sessions)
  /\ \E p, q \in Threads :
       /\ pc[p] = "idle" /\ ret[p] = Res("CreateSession", "ErrMaxSessions")
       /\ pc[q] = "idle" /\ ret[q] = Res("GetSession", "ErrSessionExpired")

\* C35: no two entries of one archive have the same name, also when the
\* requested paths lie in different remote directories or repeat.
C35_EntryNamesUnique ==
  \A i, j \in DOMAIN zentries :
    i # j => zentries[i].name # zentries[j].name

\* C36: at most one remote read stream is open at any time during
\* DownloadMultiple, none is open between two elements of the walk, and when
\* the call has returned every stream it opened is closed, whichever way
\* addFileToZip ended (open, entry creation or copy failed, or all went well).
C36_AtMostOneStreamAllClosed ==
  /\ zopen <= 1
  /\ zopen = 1 => (zpc = "loop" /\ zfile)
  /\ zpc = "done" => zopen = 0

\* the call has returned after a copy failed part-way through one file and
\* the sink failed, and no stream is left open
C36_Witness ==
  /\ zpc = "done"
  /\ zopen = 0
  /\ zsink
  /\ \E i \in DOMAIN zentries : ~zentries[i].isDir /\ ~zentries[i].full

\* the entry zipWriter.Create(zipPath + "/") made for a directory is in es
HasDirEntry(es, zipPath) ==
  \E i \in DOMAIN es : es[i].isDir /\ es[i].name = zipPath \o <<Slash>>

\* C37: the entry of every directory the walk goes into, an empty one
\* included, is written before any entry inside it, and the entries of the
\* requested paths come in request order: entries are only ever appended; a
\* requested path is taken up, in list order, when the walk of the one before
\* is over, and what it appends is named by its own base name; what a
\* directory's loop appends lies below that directory's entry; and every
\* directory whose loop has started or is about to start has its entry.
C37_DirectoryEntryFirstInRequestOrder ==
  [][/\ Len(zentries') \in {Len(zentries), Len(zentries) + 1}
     /\ SubSeq(zentries', 1, Len(zentries)) = zentries
     /\ \A k \in DOMAIN zstack' : HasDirEntry(zentries', zstack'[k].zipPath)
     /\ \A out \in ZipOutcomes :
          (DownloadMultipleNext(out) /\ zentries' # zentries) =>
            /\ zstack = <<>>
            /\ zpaths' = Tail(zpaths)
            /\ zentries'[Len(zentries')].name \in
                 {Base(Clean(Head(zpaths))), Base(Clean(Head(zpaths))) \o <<Slash>>}
     /\ \A out \in ZipOutcomes :
          (addDirectoryToZipLoop(out) /\ zentries' # zentries) =>
            LET top == zstack[Len(zstack)] IN
              /\ HasDirEntry(zentries, top.zipPath)
              /\ HasPrefix(zentries'[Len(zentries')].name, top.zipPath \o <<Slash>>)
              /\ zpaths' = zpaths]_vars

\* the walk of the first requested path wrote the entry of an empty directory
\* below the entries of the directories above it, and the entry of the second
\* requested path follows
C37_Witness ==
  /\ zpc = "done"
  /\ \E i, j, k \in DOMAIN zentries :
       /\ i < j /\ j < k
       /\ zentries[i].name = <<"b", Slash, "b", Slash>>
       /\ zentries[j].name = <<"b", Slash, "b", Slash, "b", Slash>>
       /\ zentries[k].name = <<"a">>

\* path is the directory base names or lies in the tree below it
InsideBase(path, base) ==
  LET root == Clean(base) IN
    \/ path = base
    \/ path = root
    \/ HasPrefix(path, IF root = <<Slash>> THEN root ELSE root \o <<Slash>>)

\* C39: utils.CleanPath returns the base path itself or a path inside the
\* directory tree rooted at the base path, whatever ".." elements the relative
\* path holds.
C39_CleanPathStaysInsideBase ==
  cpcall.called => InsideBase(cpcall.result, cpcall.basePath)

\* the number of forwarded requests of address ip with time stamps from..to
RECURSIVE Forwarded(_, _, _)
Forwarded(ip, from, to) ==
  IF from > to \/ from > MaxRateTime THEN 0
  ELSE rfwd[ip][from] + Forwarded(ip, from + 1, to)

\* C40: for each client address, at most maxRequests of the requests the
\* middleware forwards to the next handler fall, by the time stamps the
\* middleware gave them, within any window of windowSize, under every
\* interleaving of concurrent requests.
C40_ForwardedWithinLimit ==
  \A ip \in ClientIPs, t \in 0..MaxRateTime :
    Forwarded(ip, t, t + RateWindow - 1) <= RateMax

\* goroutine p is inside a call of the session service (the sweeper: inside a
\* CleanupExpiredSessions run)
InCall(p) ==
  IF p = Sweeper THEN pc[p] # "sw_idle"
  ELSE pc[p] \in {"cs_connect", "cs_store", "cs_lock", "gs_since", "gs_update", "gs_store",
                  "ls_loop", "st_loop", "close1", "close_nil", "close2", "ds_delete"}

\* C38: no interleaving of CreateSession, GetSession, DeleteSession,
\* ListSessions, GetStats and sweeper runs deadlocks: as long as every close
\* returns, a goroutine that is inside a call gets out of it, and holds the
\* registry lock neither for writing nor for reading when it is out.
C38_EveryCallReturns ==
  \A p \in Procs : []<>(~InCall(p) /\ mutexW # p /\ p \notin mutexR)

\* the sweeper is inside a close with the write lock held, one goroutine waits
\* in CreateSession for the write lock, and the other has come back from GetStats
C38_Witness ==
  /\ mutexW = Sweeper
  /\ pc[Sweeper] \in {"close1", "close_nil", "close2"}
  /\ \E p, q \in Threads :
       /\ pc[p] = "cs_store"
       /\ pc[q] = "idle" /\ ret[q] = Res("GetStats", "ok")

==============================================================================
